---- MODULE Spec2Model ----
(***************************************************************************)
(* Media-generation task orchestrator of InteractiveFilm-CharacterDailyAgent*)
(*   PerformanceGenerator.generate   (src/src/video/performance_generator.py)*)
(*   SceneProcessor                  (src/src/video/scene_processor.py)     *)
(*   UnifiedAPIClient.wait_for_video / download_file                        *)
(*                                   (src/src/video/unified_api_client.py)  *)
(* Strings the code computes on (event names, time slots) are sequences of  *)
(* one-character strings; None is the empty sequence <<>>.                  *)
(***************************************************************************)
EXTENDS Integers, Sequences, FiniteSets, TLC

\* ------------------------------------------------------------------ bounds
NumTasks == 2
MaxWorkers == 2
MaxRetry == 1
MaxTimeout == 2
MaxTick == 2
MaxEvents == 2

\* ------------------------------------------------------- program constants
max_consecutive_failures == 10
EventNameLimit == 30
MinContained == 5
PrefixLen == 10

\* ------------------------------------------------------------- text values
None == <<>>

TS09 == <<"0","9",":","0","0","-","1","1",":","0","0">>
TS14 == <<"1","4",":","0","0","-","1","6",":","0","0">>
TimeSlotValues == {TS09, TS14}

NameCoffee == <<"c","o","f","f","e","e">>
NameCoffeeBreak == <<"C","o","f","f","e","e"," ","b","r","e","a","k">>
NameLunch == <<"l","u","n","c","h">>

\* str.replace(old, new) for one-character old and new
ReplaceChar(s, old, new) == [i \in DOMAIN s |-> IF s[i] = old THEN new ELSE s[i]]

\* time_slot.replace(":", "-")
DashSlot(ts) == ReplaceChar(ts, ":", "-")

\* time_slot.replace("-", ":")
ColonSlot(ts) == ReplaceChar(ts, "-", ":")

LowerChar(c) ==
  CASE c = "C" -> "c"
    [] c = "R" -> "r"
    [] c = "S" -> "s"
    [] c = "N" -> "n"
    [] OTHER -> c

\* str.lower()
Lower(s) == [i \in DOMAIN s |-> LowerChar(s[i])]

AlnumChars == {"a","b","c","e","f","h","k","l","n","o","r","s","u",
               "C","R","S","N","0","1","4","9"}

\* "".join(c for c in s if keep(c))
RECURSIVE FilterChars(_, _)
FilterChars(s, keep) ==
  IF s = <<>> THEN <<>>
  ELSE (IF Head(s) \in keep THEN <<Head(s)>> ELSE <<>>) \o FilterChars(Tail(s), keep)

\* s.replace(c, "") for every c in drop
RECURSIVE RemoveChars(_, _)
RemoveChars(s, drop) ==
  IF s = <<>> THEN <<>>
  ELSE (IF Head(s) \in drop THEN <<>> ELSE <<Head(s)>>) \o RemoveChars(Tail(s), drop)

RECURSIVE LStrip(_)
LStrip(s) == IF s # <<>> /\ Head(s) = " " THEN LStrip(Tail(s)) ELSE s

RECURSIVE RStrip(_)
RStrip(s) ==
  IF s # <<>> /\ s[Len(s)] = " " THEN RStrip(SubSeq(s, 1, Len(s) - 1)) ELSE s

\* str.strip()
Strip(s) == RStrip(LStrip(s))

\* s[:n]
Prefix(s, n) == SubSeq(s, 1, IF Len(s) < n THEN Len(s) ELSE n)

\* a in b  (substring test)
Contains(b, a) ==
  \E i \in 0..(Len(b) - Len(a)) : SubSeq(b, i + 1, i + Len(a)) = a

\* ------------------------------------------------------------ scene titles
\* Scene titles are the literal titles below; the operators give what the
\* code's tests and regular expressions compute on each of them.  TitleNull is
\* a JSON null in the place of the title.
TitlePrologue == "Prologue: Dawn"
TitleBranchA == "Branch A - Trust"
TitleBranchB == "Branch B - Doubt"
TitleEnding == "Ending a"
TitleNull == "null"

\* "prologue" in scene_title.lower() (or the Chinese prologue marker)
IsPrologueTitle(title) == title = TitlePrologue

\* "branch" in scene_title.lower()
IsBranchTitle(title) == title \in {TitleBranchA, TitleBranchB}

\* re.search(r'branch\s*([A-Z_a-z]+)', title, re.I).group(1).upper()
ExtractBranchFromTitle(title) ==
  CASE title = TitleBranchA -> <<"A">>
    [] title = TitleBranchB -> <<"B">>
    [] OTHER -> None

\* "ending" in scene_title.lower()
IsEndingTitle(title) == title = TitleEnding

\* PerformanceGenerator._extract_ending_from_title
ExtractEndingFromTitle(title) == IF title = TitleEnding THEN <<"a">> ELSE None

\* scene_info["scene_type_cn"]; PROLOGUE_CN stands for the four-character
\* Chinese prologue marker the code writes
SceneTypeCn(title) ==
  CASE title = TitlePrologue -> "PROLOGUE_CN"
    [] title = TitleBranchA -> "branch_A"
    [] title = TitleBranchB -> "branch_B"
    [] title = TitleEnding -> "ENDING_CN_a"
    [] OTHER -> ""

\* scene_info["chinese_title"]: the text after the colon, spaces removed
ChineseTitle(title) ==
  CASE title = TitlePrologue -> "Dawn"
    [] OTHER -> ""

\* -------------------------------------------------------------- event names
TypeNames == { <<"I","n","t","e","r","a","c","t","i","v","e">>,
               <<"D","y","n","a","m","i","c">>,
               <<"E","v","e","n","t">>,
               <<"R">>, <<"S","R">>, <<"N">>,
               <<"D","y","n","a","m","i","c","E","v","e","n","t">> }

\* str.split(): the words of s, separated by runs of spaces
RECURSIVE SplitWords(_, _)
SplitWords(s, cur) ==
  IF s = <<>> THEN (IF cur = <<>> THEN <<>> ELSE <<cur>>)
  ELSE IF Head(s) = " "
       THEN (IF cur = <<>> THEN <<>> ELSE <<cur>>) \o SplitWords(Tail(s), <<>>)
       ELSE SplitWords(Tail(s), Append(cur, Head(s)))

\* ' '.join(words)
RECURSIVE JoinWords(_)
JoinWords(ws) ==
  IF ws = <<>> THEN <<>>
  ELSE IF Len(ws) = 1 THEN ws[1]
  ELSE ws[1] \o <<" ">> \o JoinWords(Tail(ws))

\* SceneProcessor._clean_title(title, is_event_name=True) on a name that
\* carries no leading "**" marker (none of the names above does).
CleanTitle(title) ==
  LET words == SplitWords(title, <<>>)
      filtered == SelectSeq(words, LAMBDA w : w \notin TypeNames)
      cleaned == IF Len(words) = 1 /\ words[1] \in TypeNames THEN words[1]
                 ELSE IF filtered # <<>> THEN JoinWords(filtered)
                 ELSE JoinWords(words)
  IN FilterChars(cleaned, AlnumChars)

\* generate(): event_name_clean of a director event
EventNameClean(event_name) ==
  LET nobr == RemoveChars(event_name, {"[", "]"})
      kept == FilterChars(nobr, AlnumChars \cup {" ", "-", "_"})
  IN Prefix(Strip(kept), EventNameLimit)

\* ------------------------------------------------------------------- state
VARIABLES
  config,            \* max_workers, max_retry_on_timeout, video_timeout_seconds,
                     \* timeout_retry_enabled; provider: the providers behind the
                     \* client ("any": every answer possible, or a provider mock)
  schedule_data,     \* events of the schedule file
  director_data,     \* director_outputs of the director script
  events_data,       \* events of the events file (original R/SR events)
  time_slots,        \* the time_slots argument of generate: [given, slots]
  tasks,             \* the task tuples generate collected, in submission order
  ctl,               \* per task: the locals of the thread running it
  hist,              \* per task: what the provider adapter was asked and answered
  files,             \* the output directory: state of each file written so far
  results,           \* the results dict of generate
  collected,         \* tasks whose future as_completed has yielded
  phase,             \* position of the main thread in generate
  report_file,       \* generation_report.json in the output directory
  interactive_file,  \* interactive_data.json in the output directory
  calls,             \* the time_slots arguments of the generate calls still to come
  query,             \* a status query on its own: arguments, provider responses
                     \* and the answer once it has returned (None: no such call)
  runs,              \* generate calls of separate processes that have reached
                     \* _save_interactive_json on this output directory, each
                     \* with its time_slots, its results, its position and the
                     \* existing_data it loaded (None: no such calls)
  construction,      \* PerformanceGenerator(...) on its own: the config file, the
                     \* model arguments and how the constructor ended (None: the
                     \* generator is constructed)
  batch              \* a VideoTaskQuery.process_all_tasks call on its own: task
                     \* list, clock, _completed_tasks and the worker threads
                     \* (None: no such call)

vars == <<config, schedule_data, director_data, events_data, time_slots, tasks,
          ctl, hist, files, results, collected, phase,
          report_file, interactive_file, calls, query, runs, construction, batch>>

inputVars == <<config, schedule_data, director_data, events_data, time_slots, tasks,
               query, runs, construction, batch>>

TaskIds == DOMAIN tasks

\* ------------------------------------------------- generate: collect tasks
\* should_include_event
ShouldIncludeEvent(slots, event_time_slot) ==
  IF ~slots.given THEN TRUE ELSE event_time_slot \in slots.slots

\* lines 174-184: one n_event task per included N event of the schedule
RECURSIVE NEventTasks(_, _, _)
NEventTasks(events, slots, n_event_index) ==
  IF events = <<>> THEN <<>>
  ELSE LET event == Head(events)
       IN IF event.event_type = "N" /\ ShouldIncludeEvent(slots, event.time_slot)
          THEN << [task_type |-> "n_event", scene |-> event,
                   scene_index |-> n_event_index + 1, event_name |-> None,
                   event_type |-> "N", event_index |-> n_event_index + 1,
                   time_slot |-> event.time_slot] >>
               \o NEventTasks(Tail(events), slots, n_event_index + 1)
          ELSE NEventTasks(Tail(events), slots, n_event_index)

\* lines 210-212: one director_scene task per scene of a director event
SceneTasks(director_event, director_event_index) ==
  [scene_index \in 1..Len(director_event.scenes) |->
     [task_type |-> "director_scene",
      scene |-> director_event.scenes[scene_index],
      scene_index |-> scene_index,
      event_name |-> EventNameClean(director_event.event_name),
      event_type |-> director_event.event_type,
      event_index |-> director_event_index,
      time_slot |-> director_event.time_slot]]

\* lines 186-212
RECURSIVE DirectorTasks(_, _, _)
DirectorTasks(outputs, slots, director_event_index) ==
  IF outputs = <<>> THEN <<>>
  ELSE LET director_event == Head(outputs)
       IN IF ~ShouldIncludeEvent(slots, director_event.time_slot)
          THEN DirectorTasks(Tail(outputs), slots, director_event_index)
          ELSE SceneTasks(director_event, director_event_index + 1)
               \o DirectorTasks(Tail(outputs), slots, director_event_index + 1)

CollectTasks(schedule, director, slots) ==
  NEventTasks(schedule, slots, 0) \o DirectorTasks(director, slots, 0)

\* ------------------------------------------------ scene processor: naming
\* a scene name without the number of the event
SceneNameWithoutIndex(task) ==
  IF task.task_type = "n_event"
  THEN << DashSlot(task.scene.time_slot), "N", CleanTitle(task.scene.event_name) >>
  ELSE << DashSlot(task.time_slot), task.event_type,
          task.scene_index, SceneTypeCn(task.scene.scene_title),
          ChineseTitle(task.scene.scene_title), CleanTitle(task.event_name) >>

\* process_n_event lines 768-775 / process_director_scene lines 852-875
SceneName(task) ==
  IF task.task_type = "n_event"
  THEN << DashSlot(task.scene.time_slot), "N", task.event_index,
          CleanTitle(task.scene.event_name) >>
  ELSE << DashSlot(task.time_slot), task.event_type, task.event_index,
          task.scene_index, SceneTypeCn(task.scene.scene_title),
          ChineseTitle(task.scene.scene_title), CleanTitle(task.event_name) >>

\* os.path.join(output_dir, f"{scene_name}_frame.png")
ImagePath(task) == << SceneName(task), "_frame.png" >>

\* os.path.join(output_dir, f"{scene_name}.mp4")
VideoPath(task) == << SceneName(task), ".mp4" >>

\* ------------------------------------------------ scene processor: one task
\* What makes process_n_event / process_director_scene raise before its first
\* provider call: a JSON null where the code calls a string method
\* (_clean_title(None) line 771, scene_title.lower() line 612).
ProcessRaises(task) ==
  IF task.task_type = "n_event" THEN task.scene.event_name = None
  ELSE task.scene.scene_title = TitleNull

InitCtl ==
  [pc |-> "queued", image_path |-> None, video_path |-> None, task_id |-> 0,
   video_retry |-> 0, reference_image_url |-> None, url |-> None,
   elapsed_time |-> 0, consecutive_failures |-> 0]

InitHist ==
  [submits |-> 0, image_dl |-> "none", video_dl |-> "none", pending_only |-> TRUE,
   image_fails |-> 0, inconclusive |-> 0, frame |-> None, references |-> {},
   gave_up |-> FALSE, submit_after_give_up |-> FALSE, polled |-> 0,
   returned_id |-> 0]

Running(t) == ctl[t].pc \notin {"queued", "returned", "raised"}

\* a loop test that lets one more submission through
OneMoreSubmission(video_retry, max_video_retries) == video_retry <= max_video_retries + 1

\* `while video_retry <= max_video_retries` (line 364)
VideoBudgetLeft(video_retry, max_video_retries) == video_retry <= max_video_retries

\* `if video_retry < max_video_retries` after wait_for_video returned None (line 424)
RetryAfterNone(video_retry, max_video_retries) == video_retry < max_video_retries

\* `if elapsed_time >= self.video_timeout_seconds` (line 878)
TimedOut(elapsed_time, video_timeout_seconds) == elapsed_time >= video_timeout_seconds

\* which stage follows the prelude of process_n_event / process_director_scene:
\* `if image_prompt:` (lines 799, 897) then `if sora_prompt:` (lines 810, 908)
FirstStage(scene) ==
  IF scene.image_prompt THEN "gsi_generate"
  ELSE IF scene.sora_prompt THEN "gsv_image"
  ELSE "returned"

\* which stage follows generate_scene_image
StageAfterImage(scene) == IF scene.sora_prompt THEN "gsv_image" ELSE "returned"

\* top of the video loop, reached after a sleep: next submission or line 441
VideoLoopTop(video_retry, max_video_retries) ==
  IF VideoBudgetLeft(video_retry, max_video_retries) THEN "gsv_submit" ELSE "returned"

\* a pool that starts a thread for every submitted task at once
UnboundedPool == TRUE

\* ThreadPoolExecutor(max_workers=self.max_workers): a worker thread is idle
WorkerFree == Cardinality({u \in TaskIds : Running(u)}) < config.max_workers

\* ThreadPoolExecutor: a free worker takes the oldest queued task and runs
\* _process_scene_task up to the first provider call.
\* a pool whose idle worker takes any waiting task
AnyOfQueue(t) == TRUE

\* the work queue of the pool is first in, first out: an idle worker takes the
\* task submitted earliest among those still waiting
HeadOfQueue(t) == \A u \in TaskIds : u < t => ctl[u].pc # "queued"

Start(t) ==
  /\ phase = "collect"
  /\ ctl[t].pc = "queued"
  /\ HeadOfQueue(t)
  /\ WorkerFree
  /\ ctl' = [ctl EXCEPT ![t].pc =
               IF ProcessRaises(tasks[t]) THEN "raised" ELSE FirstStage(tasks[t].scene)]
  /\ UNCHANGED <<inputVars, hist, files, results, collected, phase,
                 report_file, interactive_file, calls>>

\* The providers behind the client. With provider "any" every answer the
\* client can hand back is possible at every call. The provider mock answers
\* by scene: for scene 1 one image request fails, scene 3's video job stays
\* "processing", everything else succeeds at once.
\* what generate_image returns: None, an http URL, or another string
ImageResults(t) ==
  IF config.provider = "any" THEN {"none", "http", "other"}
  ELSE IF tasks[t].scene_index = 1 /\ hist[t].image_fails = 0 THEN {"none", "http"}
  ELSE {"http"}

\* the image requests the mock has failed for the task
ImageFailsAfter(h, result) ==
  IF config.provider # "any" /\ result # "http"
  THEN [h EXCEPT !.image_fails = @ + 1] ELSE h

\* what submit_video returns: None (0) or a new task id
SubmitResults(t) ==
  IF config.provider = "any" THEN {0, hist[t].submits + 1} ELSE {hist[t].submits + 1}

\* generate_scene_image lines 255-265: generate_image and the test on its result
GsiGenerate(t) ==
  /\ ctl[t].pc = "gsi_generate"
  /\ \E result \in ImageResults(t) :
       /\ ctl' = [ctl EXCEPT ![t].pc = IF result = "http" THEN "gsi_download" ELSE "gsi_sleep",
                             ![t].url = IF result = "http" THEN <<"image">> ELSE None]
       /\ hist' = [hist EXCEPT ![t] = ImageFailsAfter(@, result)]
  /\ UNCHANGED <<inputVars, files, results, collected, phase,
                 report_file, interactive_file, calls>>

\* UnifiedAPIClient.download_file: the state of the local file afterwards
FileAfterDownload(before, outcome) ==
  CASE outcome = "ok" -> "complete"
    [] outcome = "fail_partial" -> "partial"
    [] OTHER -> before

DownloadOutcomes == {"ok", "fail_early", "fail_partial"}

\* how download_file can end for the task
DownloadResults(t) == IF config.provider = "any" THEN DownloadOutcomes ELSE {"ok"}

FileState(fs, path) == IF path \in DOMAIN fs THEN fs[path] ELSE "absent"

\* the output directory after download_file(url, path)
FilesAfterDownload(fs, path, outcome) ==
  LET after == FileAfterDownload(FileState(fs, path), outcome)
  IN IF after = "absent" THEN fs
     ELSE [q \in DOMAIN fs \cup {path} |-> IF q = path THEN after ELSE fs[q]]

\* an image stage that hands back the path whatever download_file returned
ImagePathAnyway(task, outcome) == ImagePath(task)

\* what generate_scene_image returns after download_file (lines 267-274)
ImagePathAfterDownload(task, outcome) ==
  IF outcome = "ok" THEN ImagePath(task) ELSE None

\* generate_scene_image lines 267-274
GsiDownload(t) ==
  /\ ctl[t].pc = "gsi_download"
  /\ \E outcome \in DownloadResults(t) :
       /\ files' = FilesAfterDownload(files, ImagePath(tasks[t]), outcome)
       /\ hist' = [hist EXCEPT ![t].image_dl = IF outcome = "ok" THEN "ok" ELSE "failed",
                               ![t].frame = IF outcome = "ok" THEN ctl[t].url ELSE @]
       /\ ctl' = [ctl EXCEPT
                    ![t].image_path = ImagePathAfterDownload(tasks[t], outcome),
                    ![t].url = None,
                    ![t].pc = IF outcome = "ok" THEN StageAfterImage(tasks[t].scene)
                              ELSE "gsi_sleep"]
  /\ UNCHANGED <<inputVars, results, collected, phase,
                 report_file, interactive_file, calls>>

\* time.sleep(10) of generate_scene_image (lines 273, 278)
GsiSleep(t) ==
  /\ ctl[t].pc = "gsi_sleep"
  /\ ctl' = [ctl EXCEPT ![t].pc = "gsi_generate"]
  /\ UNCHANGED <<inputVars, hist, files, results, collected, phase,
                 report_file, interactive_file, calls>>

\* generate_scene_video lines 341-357: the reference image, retried for ever
GsvImage(t) ==
  /\ ctl[t].pc = "gsv_image"
  /\ \E result \in ImageResults(t) :
       /\ ctl' = [ctl EXCEPT
                    ![t].reference_image_url = IF result = "http" THEN <<"reference">> ELSE None,
                    ![t].video_retry = 0,
                    ![t].pc = IF result = "http"
                              THEN VideoLoopTop(0, config.max_retry_on_timeout)
                              ELSE "gsv_image_sleep"]
       /\ hist' = [hist EXCEPT ![t] = ImageFailsAfter(@, result)]
  /\ UNCHANGED <<inputVars, files, results, collected, phase,
                 report_file, interactive_file, calls>>

\* time.sleep(10) of line 357
GsvImageSleep(t) ==
  /\ ctl[t].pc = "gsv_image_sleep"
  /\ ctl' = [ctl EXCEPT ![t].pc = "gsv_image"]
  /\ UNCHANGED <<inputVars, hist, files, results, collected, phase,
                 report_file, interactive_file, calls>>

\* an attempt that goes on with the clock of the one before
AttemptOnOldClock(c, submit_task_id) ==
  [c EXCEPT !.task_id = submit_task_id, !.consecutive_failures = 0, !.pc = "gsv_wait"]

\* an attempt whose job id is not kept for the result
AttemptWithoutId(c, submit_task_id) ==
  [c EXCEPT !.elapsed_time = 0, !.consecutive_failures = 0, !.pc = "gsv_wait"]

\* the job is submitted (scene_processor.py:395) and wait_for_video is entered
\* for it: consecutive_failures = 0, start_time = time.time() (lines 869-871)
AttemptStart(c, submit_task_id) ==
  [c EXCEPT !.task_id = submit_task_id, !.elapsed_time = 0,
            !.consecutive_failures = 0, !.pc = "gsv_wait"]

\* generate_scene_video lines 379-396: submit_video and the test on its result
GsvSubmit(t) ==
  /\ ctl[t].pc = "gsv_submit"
  /\ \E submit_task_id \in SubmitResults(t) :
       /\ hist' = [hist EXCEPT ![t].submits = @ + 1,
                               ![t].references = @ \cup {ctl[t].reference_image_url},
                               ![t].submit_after_give_up = @ \/ hist[t].gave_up,
                               ![t].returned_id = submit_task_id]
       /\ ctl' = IF submit_task_id = 0
                 THEN [ctl EXCEPT ![t].video_retry = @ + 1, ![t].pc = "gsv_sleep"]
                 ELSE [ctl EXCEPT ![t] = AttemptStart(@, submit_task_id)]
  /\ UNCHANGED <<inputVars, files, results, collected, phase,
                 report_file, interactive_file, calls>>

\* time.sleep(10) before `continue` (lines 392, 419, 427, 437), then line 364
GsvSleep(t) ==
  /\ ctl[t].pc = "gsv_sleep"
  /\ ctl' = [ctl EXCEPT
               ![t].pc = VideoLoopTop(ctl[t].video_retry, config.max_retry_on_timeout)]
  /\ UNCHANGED <<inputVars, hist, files, results, collected, phase,
                 report_file, interactive_file, calls>>

\* what query_video_status answers: None, or a status with or without a url
PollAnswers == {"none", "submitted", "processing", "unknown", "failed",
                "success_http", "success_other", "success_nourl"}

\* what the provider answers a status query of the task
PollResults(t) ==
  IF config.provider = "any" THEN PollAnswers
  ELSE IF tasks[t].scene_index = 3 THEN {"processing"}
  ELSE {"success_http"}

Min(a, b) == IF a < b THEN a ELSE b

\* query answers that tell nothing about the job: no answer (transport error,
\* unparsable response) or a status the client maps to "unknown"
Inconclusive == {"none", "unknown"}

\* how many inconclusive answers have followed one another in the wait the
\* task is in (0 once the wait has ended), counted up to one past the ceiling
InconclusiveAfter(h, c, answer) ==
  IF answer = "unknown" \/ (answer = "none"
                            /\ c.consecutive_failures + 1 <= max_consecutive_failures)
  THEN [h EXCEPT !.inconclusive = Min(@ + 1, max_consecutive_failures + 1)]
  ELSE [h EXCEPT !.inconclusive = 0]

\* wait_for_video lines 878-886, the wait has timed out: TRUE when it takes the
\* branch that announces a resubmission, FALSE when it takes the one that
\* gives the job up (retry_count is 0 there: it is a local of the call, and the
\* call returns at its first timeout); both branches return None
AnnouncesRetry(timeout_retry_enabled, retry_count, max_retry_on_timeout) ==
  timeout_retry_enabled /\ retry_count < max_retry_on_timeout

\* generate_scene_video lines 421-431: wait_for_video returned None
AfterVideoNone(c, max_video_retries) ==
  IF RetryAfterNone(c.video_retry, max_video_retries)
  THEN [c EXCEPT !.video_retry = @ + 1, !.pc = "gsv_sleep"]
  ELSE [c EXCEPT !.pc = "returned"]

\* a wait loop whose clock never moves on
FrozenClock(c, dt) == c

\* time.sleep(self.poll_interval) of wait_for_video: the clock moves on
AfterPollSleep(c, dt) ==
  [c EXCEPT !.elapsed_time = Min(@ + dt, config.video_timeout_seconds)]

\* one turn of the inner loop of wait_for_video (lines 873-926), with what
\* generate_scene_video does when wait_for_video returns (lines 405-438)
GsvPoll(t) ==
  /\ ctl[t].pc = "gsv_wait"
  /\ LET c == ctl[t]
         k == config.max_retry_on_timeout
     IN IF TimedOut(c.elapsed_time, config.video_timeout_seconds)
        THEN /\ ctl' = [ctl EXCEPT ![t] = AfterVideoNone(c, k)]
             /\ hist' = [hist EXCEPT
                           ![t].inconclusive = 0,
                           ![t].gave_up = @ \/ ~AnnouncesRetry(config.timeout_retry_enabled, 0, k)]
        ELSE \E answer \in PollResults(t), dt \in 1..MaxTick :
               /\ hist' = [hist EXCEPT ![t] =
                    InconclusiveAfter(
                      [@ EXCEPT !.pending_only = @ /\ answer \in {"submitted", "processing"},
                                !.polled = c.task_id],
                      c, answer)]
               /\ ctl' = [ctl EXCEPT ![t] =
                    CASE answer = "none" ->
                           IF c.consecutive_failures + 1 <= max_consecutive_failures
                           THEN AfterPollSleep(
                                  [c EXCEPT !.consecutive_failures = @ + 1], dt)
                           ELSE AfterVideoNone(
                                  [c EXCEPT !.consecutive_failures = @ + 1], k)
                      [] answer = "failed" ->
                           AfterVideoNone([c EXCEPT !.consecutive_failures = 0], k)
                      [] answer = "success_http" ->
                           [c EXCEPT !.consecutive_failures = 0,
                                     !.url = <<"video">>, !.pc = "gsv_download"]
                      [] answer = "success_other" ->
                           [c EXCEPT !.consecutive_failures = 0,
                                     !.video_retry = @ + 1, !.pc = "gsv_sleep"]
                      [] OTHER ->
                           AfterPollSleep([c EXCEPT !.consecutive_failures = 0], dt)]
  /\ UNCHANGED <<inputVars, files, results, collected, phase,
                 report_file, interactive_file, calls>>

\* a video stage that records the path whatever download_file returned
VideoPathAnyway(task, outcome) == VideoPath(task)

\* what generate_scene_video records after download_file (lines 411-413)
VideoPathAfterDownload(task, outcome) ==
  IF outcome = "ok" THEN VideoPath(task) ELSE None

\* generate_scene_video lines 406-420
GsvDownload(t) ==
  /\ ctl[t].pc = "gsv_download"
  /\ \E outcome \in DownloadResults(t) :
       /\ files' = FilesAfterDownload(files, VideoPath(tasks[t]), outcome)
       /\ hist' = [hist EXCEPT ![t].video_dl = IF outcome = "ok" THEN "ok" ELSE "failed"]
       /\ ctl' = [ctl EXCEPT
                    ![t].video_path = VideoPathAfterDownload(tasks[t], outcome),
                    ![t].url = None,
                    ![t].video_retry = IF outcome = "ok" THEN @ ELSE @ + 1,
                    ![t].pc = IF outcome = "ok" THEN "returned" ELSE "gsv_sleep"]
  /\ UNCHANGED <<inputVars, results, collected, phase,
                 report_file, interactive_file, calls>>

TaskStep(t) ==
  \/ Start(t) \/ GsiGenerate(t) \/ GsiDownload(t) \/ GsiSleep(t)
  \/ GsvImage(t) \/ GsvImageSleep(t) \/ GsvSubmit(t) \/ GsvSleep(t)
  \/ GsvPoll(t) \/ GsvDownload(t)

\* ------------------------------------------------- generate: collect results
\* the dict process_n_event / process_director_scene returns (lines 789-796,
\* 883-894, 918-919), from the locals of the finished thread
SceneResult(task, c) ==
  IF task.task_type = "n_event"
  THEN [scene_name |-> SceneName(task), scene_info |-> "N",
        time_slot |-> task.scene.time_slot,
        image_path |-> c.image_path, video_path |-> c.video_path,
        task_id |-> c.task_id]
  ELSE [scene_title |-> task.scene.scene_title, scene_name |-> SceneName(task),
        scene_info |-> SceneTypeCn(task.scene.scene_title),
        time_slot |-> DashSlot(task.time_slot), event_name |-> task.event_name,
        image_prompt |-> task.scene.image_prompt,
        sora_prompt |-> task.scene.sora_prompt,
        image_path |-> c.image_path, video_path |-> c.video_path,
        task_id |-> c.task_id]

EmptyResults ==
  [n_events |-> <<>>, r_events |-> <<>>, sr_events |-> <<>>, summary |-> None]

\* index of the first event of the list with this event_name, 0 when none
FirstNamed(events, event_name) ==
  IF \E i \in DOMAIN events : events[i].event_name = event_name
  THEN CHOOSE i \in DOMAIN events :
         /\ events[i].event_name = event_name
         /\ \A j \in 1..(i - 1) : events[j].event_name # event_name
  ELSE 0

\* _add_scene_result_to_event on one of the two event lists
AddToEventList(events, event_name, event_type, scene_result) ==
  LET i == FirstNamed(events, event_name)
  IN IF i = 0
     THEN Append(events, [event_name |-> event_name, event_type |-> event_type,
                          time_slot |-> scene_result.time_slot,
                          scenes |-> <<scene_result>>])
     ELSE [events EXCEPT ![i].scenes = Append(@, scene_result)]

\* PerformanceGenerator._add_scene_result_to_event
AddSceneResultToEvent(res, event_name, event_type, scene_result) ==
  IF event_type = "R"
  THEN [res EXCEPT !.r_events = AddToEventList(@, event_name, event_type, scene_result)]
  ELSE [res EXCEPT !.sr_events = AddToEventList(@, event_name, event_type, scene_result)]

\* generate lines 235-249: what one completed future does to results
\* (future.result() re-raises the exception of a task that raised)
ResultsAfterFuture(res, task, c) ==
  IF c.pc = "raised" THEN res
  ELSE IF task.task_type = "n_event"
       THEN [res EXCEPT !.n_events = Append(@, SceneResult(task, c))]
       ELSE AddSceneResultToEvent(res, task.event_name, task.event_type,
                                  SceneResult(task, c))

\* a collect loop that lets the exception of a task escape from generate
EscapedException == "aborted"

\* where the main thread goes after a future whose result() raised (line 248)
PhaseAfterException == "collect"

\* the thread function has returned: of its locals only the result dict is left
AfterResult(c) ==
  [InitCtl EXCEPT !.pc = c.pc, !.image_path = c.image_path,
                  !.video_path = c.video_path, !.task_id = c.task_id]

\* as_completed yields one finished future (lines 226-249)
Collect(t) ==
  /\ phase = "collect"
  /\ t \notin collected
  /\ ctl[t].pc \in {"returned", "raised"}
  /\ collected' = collected \cup {t}
  /\ results' = ResultsAfterFuture(results, tasks[t], ctl[t])
  /\ phase' = IF ctl[t].pc = "raised" THEN PhaseAfterException ELSE "collect"
  /\ ctl' = [ctl EXCEPT ![t] = AfterResult(@)]
  /\ UNCHANGED <<inputVars, hist, files, report_file, interactive_file, calls>>

RECURSIVE SumNat(_)
SumNat(seq) == IF seq = <<>> THEN 0 ELSE Head(seq) + SumNat(Tail(seq))

HasImage(s) == s.image_path # None

HasVideo(s) == s.video_path # None

\* sum(1 for s in scenes if s.get("image_path"))
ImagesIn(scenes) == Cardinality({i \in DOMAIN scenes : HasImage(scenes[i])})

\* sum(1 for s in scenes if s.get("video_path"))
VideosIn(scenes) == Cardinality({i \in DOMAIN scenes : HasVideo(scenes[i])})

ScenesOf(e) == Len(e.scenes)

ImagesOf(e) == ImagesIn(e.scenes)

VideosOf(e) == VideosIn(e.scenes)

\* sum(len(e["scenes"]) for e in events)
SumScenes(events) == SumNat([i \in DOMAIN events |-> ScenesOf(events[i])])

\* images over all scenes of all events
SumImages(events) == SumNat([i \in DOMAIN events |-> ImagesOf(events[i])])

\* videos over all scenes of all events
SumVideos(events) == SumNat([i \in DOMAIN events |-> VideosOf(events[i])])

\* PerformanceGenerator._generate_summary
GenerateSummary(res) ==
  LET n_images == ImagesIn(res.n_events)
      n_videos == VideosIn(res.n_events)
      r_images == SumImages(res.r_events)
      r_videos == SumVideos(res.r_events)
      sr_images == SumImages(res.sr_events)
      sr_videos == SumVideos(res.sr_events)
  IN << [n_events |-> [total |-> Len(res.n_events), images_generated |-> n_images,
                       videos_generated |-> n_videos],
         r_events |-> [total |-> Len(res.r_events),
                       scenes |-> SumScenes(res.r_events),
                       images_generated |-> r_images, videos_generated |-> r_videos],
         sr_events |-> [total |-> Len(res.sr_events),
                        scenes |-> SumScenes(res.sr_events),
                        images_generated |-> sr_images, videos_generated |-> sr_videos],
         total |-> [images |-> n_images + r_images + sr_images,
                    videos |-> n_videos + r_videos + sr_videos]] >>

\* generate lines 251-252: the pool has shut down, the summary is computed
Summarize ==
  /\ phase = "collect"
  /\ collected = TaskIds
  /\ results' = [results EXCEPT !.summary = GenerateSummary(results)]
  /\ phase' = "report"
  /\ UNCHANGED <<inputVars, ctl, hist, files, collected, report_file,
                 interactive_file, calls>>

\* PerformanceGenerator._save_report: open(report_path, 'w') and json.dump
ReportAfterSave(old_report, res) == <<res>>

\* generate line 255
SaveReport ==
  /\ phase = "report"
  /\ report_file' = ReportAfterSave(report_file, results)
  /\ phase' = "interactive"
  /\ UNCHANGED <<inputVars, ctl, hist, files, results, collected,
                 interactive_file, calls>>

\* ------------------------------------------- _save_interactive_json: names
\* re.sub(r'\*\*', '', name)
RECURSIVE RemoveDoubleStar(_)
RemoveDoubleStar(s) ==
  IF Len(s) >= 2 /\ s[1] = "*" /\ s[2] = "*" THEN RemoveDoubleStar(SubSeq(s, 3, Len(s)))
  ELSE IF s = <<>> THEN <<>>
  ELSE <<Head(s)>> \o RemoveDoubleStar(Tail(s))

\* re.sub(r'^\[[^]]+\]$', '', name)
RemoveWholeBracket(s) ==
  IF /\ Len(s) >= 3
     /\ s[1] = "["
     /\ s[Len(s)] = "]"
     /\ \A i \in 2..(Len(s) - 1) : s[i] # "]"
  THEN <<>>
  ELSE s

StartsWith(s, p) == Len(s) >= Len(p) /\ SubSeq(s, 1, Len(p)) = p

TypePrefixes == { <<"i","n","t","e","r","a","c","t","i","v","e">>,
                  <<"d","y","n","a","m","i","c","e","v","e","n","t">>,
                  <<"d","y","n","a","m","i","c"," ","e","v","e","n","t">>,
                  <<"r">>, <<"s","r">>, <<"n">> }

\* re.sub(r'^(Interactive|Dynamic\s*Event|DynamicEvent|R|SR|N)\s+', '', name,
\*        flags=re.IGNORECASE); "Dynamic Event" is taken with one space
RemoveTypePrefix(s) ==
  LET hits == {p \in TypePrefixes :
                 /\ StartsWith(Lower(s), p)
                 /\ Len(s) > Len(p)
                 /\ s[Len(p) + 1] = " "}
  IN IF hits = {} THEN s
     ELSE LET p == CHOOSE q \in hits : \A r \in hits : Len(r) <= Len(q)
          IN LStrip(SubSeq(s, Len(p) + 1, Len(s)))

\* normalize_event_name (lines 469-485)
NormalizeEventName(name) ==
  Lower(Strip(RemoveTypePrefix(RemoveWholeBracket(RemoveDoubleStar(name)))))

\* event_names_match lines 499-513: the tests on the two normalised names
NormsMatch(norm1, norm2) ==
  LET shorter == IF Len(norm1) < Len(norm2) THEN norm1 ELSE norm2
      longer == IF Len(norm1) < Len(norm2) THEN norm2 ELSE norm1
  IN \/ norm1 = norm2
     \/ (norm1 # <<>> /\ Contains(norm2, norm1))
     \/ (norm2 # <<>> /\ Contains(norm1, norm2))
     \/ /\ norm1 # <<>>
        /\ norm2 # <<>>
        /\ \/ (Len(shorter) >= MinContained /\ Contains(longer, shorter))
           \/ /\ Len(shorter) >= PrefixLen
              /\ Len(longer) >= PrefixLen
              /\ Prefix(shorter, PrefixLen) = Prefix(longer, PrefixLen)

\* event_names_match (lines 488-514)
EventNamesMatch(name1, name2) ==
  IF name1 = <<>> \/ name2 = <<>> THEN FALSE
  ELSE IF Lower(name1) = Lower(name2) THEN TRUE
  ELSE NormsMatch(NormalizeEventName(name1), NormalizeEventName(name2))

MinOf(set) == CHOOSE i \in set : \A j \in set : i <= j

MaxOf(set) == CHOOSE i \in set : \A j \in set : j <= i

\* the first of the indices that passed a test, 0 when none did
FirstIndex(hits) == IF hits = {} THEN 0 ELSE MinOf(hits)

\* the last of the indices that passed a test, 0 when none did
LastIndex(hits) == IF hits = {} THEN 0 ELSE MaxOf(hits)

\* ------------------------------------ _save_interactive_json: build events
\* os.path.basename(video_path): paths are modelled without the directory
Basename(path) == path

\* truthiness of a value that is None or a path
Truthy(v) == v # None

\* lines 461-466 and 544: n_events_map.get(time_slot), 0 when absent
NEventsMapGet(n_events, time_slot) ==
  LastIndex({idx \in DOMAIN n_events :
               n_events[idx].time_slot # <<>> /\ n_events[idx].time_slot = time_slot})

\* lines 545-567, i being the index of n_event_data (0: None)
NEventAt(schedule_event, n_events, i) ==
  LET with_video == i # 0 /\ Truthy(n_events[i].video_path)
  IN [time_slot |-> schedule_event.time_slot, event_type |-> "N",
      event_name |-> schedule_event.event_name, format |-> "simple",
      video_file |-> IF with_video THEN Basename(n_events[i].video_path) ELSE None,
      scene_name |-> IF with_video THEN n_events[i].scene_name ELSE None,
      image_path |-> IF with_video THEN n_events[i].image_path ELSE None]

\* lines 542-569
NEventData(schedule_event, res) ==
  NEventAt(schedule_event, res.n_events,
           NEventsMapGet(res.n_events, schedule_event.time_slot))

\* lines 575-579 (and 677-682): first stored event whose name matches
StoredByName(stored_events, event_name) ==
  FirstIndex({idx \in DOMAIN stored_events :
                EventNamesMatch(stored_events[idx].event_name, event_name)})

\* lines 586-592: first original R event matching by name or time slot
OriginalR(originals, event_name, time_slot) ==
  FirstIndex({idx \in DOMAIN originals :
                /\ originals[idx].event_type = "R"
                /\ \/ EventNamesMatch(originals[idx].event_name, event_name)
                   \/ originals[idx].time_slot = time_slot})

\* lines 613-621 (and 726-737): the prologue the scenes of an event leave,
\* i being the last prologue scene with a video (0: none)
PrologueAt(scenes, text, i) ==
  IF i = 0 THEN [text |-> text, video_file |-> None, scene_title |-> ""]
  ELSE [text |-> text, video_file |-> Basename(scenes[i].video_path),
        scene_title |-> scenes[i].scene_title]

\* lines 603-621 (and 714-737)
PrologueOf(scenes, text) ==
  PrologueAt(scenes, text,
             LastIndex({idx \in DOMAIN scenes :
                          /\ Truthy(scenes[idx].video_path)
                          /\ IsPrologueTitle(scenes[idx].scene_title)}))

\* lines 624-651: branches appended for the branch scenes that have a video
RECURSIVE BranchesOf(_, _)
BranchesOf(scenes, original_branches) ==
  IF scenes = <<>> THEN <<>>
  ELSE LET scene == Head(scenes)
           branch_id == ExtractBranchFromTitle(scene.scene_title)
           b == FirstIndex({idx \in DOMAIN original_branches :
                           original_branches[idx].branch_id = branch_id})
           rest == BranchesOf(Tail(scenes), original_branches)
       IN IF /\ Truthy(scene.video_path)
             /\ ~IsPrologueTitle(scene.scene_title)
             /\ IsBranchTitle(scene.scene_title)
             /\ branch_id # None
             /\ original_branches # <<>>
             /\ b # 0
          THEN << [branch_id |-> branch_id,
                   branch_title |-> original_branches[b].branch_title,
                   video_file |-> Basename(scene.video_path),
                   scene_title |-> scene.scene_title] >> \o rest
          ELSE rest

\* lines 594-660: event_data of an R event from the stored event r_event_data
\* and the original event (original_found false: original_event is None)
REventFrom(schedule_event, r_event_data, original_found, original_event) ==
  LET has_branches == original_found /\ original_event.branches # <<>>
  IN [time_slot |-> schedule_event.time_slot, event_type |-> "R",
      event_name |-> schedule_event.event_name,
      format |-> IF has_branches THEN "branches" ELSE "interaction",
      prologue |-> PrologueOf(r_event_data.scenes,
                              IF original_found THEN original_event.prologue ELSE ""),
      branches |-> IF has_branches
                   THEN BranchesOf(r_event_data.scenes, original_event.branches)
                   ELSE <<>>]

\* element i of seq, or the default when i = 0
At(seq, i, default) == IF i = 0 THEN default ELSE seq[i]

\* lines 580-592: <<>> when the event is skipped (line 582)
REventAt(schedule_event, res, originals, r, o) ==
  IF r = 0 THEN <<>>
  ELSE << REventFrom(schedule_event, res.r_events[r], o # 0, At(originals, o, None)) >>

\* lines 571-660
REventData(schedule_event, res, originals) ==
  REventAt(schedule_event, res, originals,
           StoredByName(res.r_events, schedule_event.event_name),
           OriginalR(originals, schedule_event.event_name, schedule_event.time_slot))

\* the first index when one was found, else the second
OrElse(first, second) == IF first # 0 THEN first ELSE second

\* lines 664-682: stored SR event by time slot, else by name
StoredSR(stored_events, event_name, time_slot) ==
  OrElse(FirstIndex({idx \in DOMAIN stored_events :
                       ColonSlot(stored_events[idx].time_slot) = ColonSlot(time_slot)}),
         StoredByName(stored_events, event_name))

\* lines 688-706: original SR event by time slot, else by name
OriginalSR(originals, event_name, time_slot) ==
  OrElse(FirstIndex({idx \in DOMAIN originals :
                       /\ originals[idx].event_type = "SR"
                       /\ ColonSlot(originals[idx].time_slot) = ColonSlot(time_slot)}),
         FirstIndex({idx \in DOMAIN originals :
                       /\ originals[idx].event_type = "SR"
                       /\ EventNamesMatch(originals[idx].event_name, event_name)}))

\* lines 793-800: the ending scenes write into the resolutions list, which is
\* the list object of the original event (line 719)
RECURSIVE ResolutionsAfterScenes(_, _)
ResolutionsAfterScenes(resolutions, scenes) ==
  IF scenes = <<>> THEN resolutions
  ELSE LET scene == Head(scenes)
           ending_id == ExtractEndingFromTitle(scene.scene_title)
           i == FirstIndex({idx \in DOMAIN resolutions :
                           resolutions[idx].ending_id = ending_id})
           next == IF /\ Truthy(scene.video_path)
                      /\ ~IsPrologueTitle(scene.scene_title)
                      /\ ~IsBranchTitle(scene.scene_title)
                      /\ IsEndingTitle(scene.scene_title)
                      /\ ending_id # None
                      /\ i # 0
                   THEN [resolutions EXCEPT ![i].video_file = Basename(scene.video_path),
                                            ![i].scene_title = scene.scene_title]
                   ELSE resolutions
       IN ResolutionsAfterScenes(next, Tail(scenes))

\* lines 708-720 without the two aliased lists, which the caller resolves
SREventData(schedule_event, stored, original_prologue) ==
  [time_slot |-> schedule_event.time_slot, event_type |-> "SR",
   event_name |-> schedule_event.event_name, format |-> "phases",
   prologue |-> PrologueOf(stored.scenes, original_prologue),
   phases |-> <<>>, resolutions |-> <<>>]

\* line 660, or nothing when the event was skipped
AccAfterR(acc, ev) ==
  [acc EXCEPT !.events = @ \o ev, !.orig = @ \o [i \in DOMAIN ev |-> 0]]

\* lines 683-802: what one SR event of the schedule adds, given the index s of
\* the stored event and o of the original event (0: none)
AccAfterSR(acc, schedule_event, res, s, o) ==
  IF s = 0 THEN acc
  ELSE [events |-> Append(acc.events,
                     SREventData(schedule_event, res.sr_events[s],
                                 IF o = 0 THEN "" ELSE acc.originals[o].prologue)),
        orig |-> Append(acc.orig, o),
        originals |->
          IF o = 0 THEN acc.originals
          ELSE [acc.originals EXCEPT ![o].resolutions =
                  ResolutionsAfterScenes(@, res.sr_events[s].scenes)]]

\* lines 534-802: the loop over the schedule. acc.events holds the event_data
\* appended so far, acc.orig the index of the original event whose phases and
\* resolutions lists an SR event_data shares, acc.originals the events file as
\* the loop has mutated it in memory
RECURSIVE BuildEvents(_, _, _)
BuildEvents(schedule, res, acc) ==
  IF schedule = <<>> THEN acc
  ELSE LET schedule_event == Head(schedule)
           rest == Tail(schedule)
       IN CASE schedule_event.event_type = "N" ->
                 BuildEvents(rest, res,
                   [acc EXCEPT !.events = Append(@, NEventData(schedule_event, res)),
                               !.orig = Append(@, 0)])
            [] schedule_event.event_type = "R" ->
                 BuildEvents(rest, res,
                   AccAfterR(acc, REventData(schedule_event, res, acc.originals)))
            [] schedule_event.event_type = "SR" ->
                 BuildEvents(rest, res,
                   AccAfterSR(acc, schedule_event, res,
                     StoredSR(res.sr_events, schedule_event.event_name,
                              schedule_event.time_slot),
                     OriginalSR(acc.originals, schedule_event.event_name,
                                schedule_event.time_slot)))
            [] OTHER -> BuildEvents(rest, res, acc)

\* interactive_data["events"] as json.dump sees it after the loop
NewEvents(schedule, res, originals) ==
  LET acc == BuildEvents(schedule, res,
                         [events |-> <<>>, orig |-> <<>>, originals |-> originals])
  IN [i \in DOMAIN acc.events |->
        IF acc.orig[i] = 0 THEN acc.events[i]
        ELSE [acc.events[i] EXCEPT !.phases = acc.originals[acc.orig[i]].phases,
                                   !.resolutions = acc.originals[acc.orig[i]].resolutions]]

\* --------------------------------------------------------- _merge_event_data
\* lines 851-856
MergeN(existing_event, new_event) ==
  [existing_event EXCEPT
     !.video_file = IF Truthy(new_event.video_file) THEN new_event.video_file ELSE @,
     !.scene_name = IF Truthy(new_event.scene_name) THEN new_event.scene_name ELSE @,
     !.image_path = IF Truthy(new_event.image_path) THEN new_event.image_path ELSE @]

\* a merge of prologues that takes the new prologue as it is
MergePrologueWhole(existing_prologue, new_prologue) == new_prologue

\* lines 861-866 and 889-894
MergePrologue(existing_prologue, new_prologue) ==
  IF Truthy(new_prologue.video_file)
  THEN [existing_prologue EXCEPT
          !.video_file = new_prologue.video_file,
          !.scene_title = IF new_prologue.scene_title # "" THEN new_prologue.scene_title
                          ELSE @]
  ELSE existing_prologue

\* lines 873-884: map is the dict built before the loop from the branches the
\* existing event had then, acc the existing list as the loop has changed it
RECURSIVE MergeBranchLoop(_, _, _)
MergeBranchLoop(map, acc, new_branches) ==
  IF new_branches = <<>> THEN acc
  ELSE LET new_branch == Head(new_branches)
           i == LastIndex({idx \in DOMAIN map : map[idx].branch_id = new_branch.branch_id})
       IN MergeBranchLoop(map,
            IF i # 0
            THEN [acc EXCEPT
                    ![i].video_file = IF Truthy(new_branch.video_file)
                                      THEN new_branch.video_file ELSE @,
                    ![i].scene_title = IF new_branch.scene_title # ""
                                       THEN new_branch.scene_title ELSE @]
            ELSE Append(acc, new_branch),
            Tail(new_branches))

\* lines 869-884
MergeBranches(existing_branches, new_branches) ==
  IF existing_branches # <<>> /\ new_branches # <<>>
  THEN MergeBranchLoop(existing_branches, existing_branches, new_branches)
  ELSE existing_branches

\* lines 917-929
RECURSIVE MergeChoiceLoop(_, _, _)
MergeChoiceLoop(map, acc, new_choices) ==
  IF new_choices = <<>> THEN acc
  ELSE LET new_choice == Head(new_choices)
           i == LastIndex({idx \in DOMAIN map : map[idx].option_id = new_choice.option_id})
       IN MergeChoiceLoop(map,
            IF i # 0
            THEN [acc EXCEPT
                    ![i].video_file_part1 = IF Truthy(new_choice.video_file_part1)
                                            THEN new_choice.video_file_part1 ELSE @,
                    ![i].scene_title_part1 = IF new_choice.scene_title_part1 # ""
                                             THEN new_choice.scene_title_part1 ELSE @,
                    ![i].video_file_part2 = IF Truthy(new_choice.video_file_part2)
                                            THEN new_choice.video_file_part2 ELSE @,
                    ![i].scene_title_part2 = IF new_choice.scene_title_part2 # ""
                                             THEN new_choice.scene_title_part2 ELSE @]
            ELSE acc,
            Tail(new_choices))

\* lines 914-929
MergeChoices(existing_choices, new_choices) ==
  IF existing_choices # <<>> /\ new_choices # <<>>
  THEN MergeChoiceLoop(existing_choices, existing_choices, new_choices)
  ELSE existing_choices

\* lines 901-929
RECURSIVE MergePhaseLoop(_, _, _)
MergePhaseLoop(map, acc, new_phases) ==
  IF new_phases = <<>> THEN acc
  ELSE LET new_phase == Head(new_phases)
           i == LastIndex({idx \in DOMAIN map : map[idx].phase_number = new_phase.phase_number})
       IN MergePhaseLoop(map,
            IF i # 0
            THEN [acc EXCEPT
                    ![i].video_file = IF Truthy(new_phase.video_file)
                                      THEN new_phase.video_file ELSE @,
                    ![i].scene_title = IF new_phase.scene_title # ""
                                       THEN new_phase.scene_title ELSE @,
                    ![i].narrative_title = IF new_phase.narrative_title # ""
                                           THEN new_phase.narrative_title ELSE @,
                    ![i].choices = MergeChoices(@, new_phase.choices)]
            ELSE acc,
            Tail(new_phases))

\* lines 897-929
MergePhases(existing_phases, new_phases) ==
  IF existing_phases # <<>> /\ new_phases # <<>>
  THEN MergePhaseLoop(existing_phases, existing_phases, new_phases)
  ELSE existing_phases

\* lines 935-943
RECURSIVE MergeResolutionLoop(_, _, _)
MergeResolutionLoop(map, acc, new_resolutions) ==
  IF new_resolutions = <<>> THEN acc
  ELSE LET new_resolution == Head(new_resolutions)
           i == LastIndex({idx \in DOMAIN map : map[idx].ending_id = new_resolution.ending_id})
       IN MergeResolutionLoop(map,
            IF i # 0
            THEN [acc EXCEPT
                    ![i].video_file = IF Truthy(new_resolution.video_file)
                                      THEN new_resolution.video_file ELSE @,
                    ![i].scene_title = IF new_resolution.scene_title # ""
                                       THEN new_resolution.scene_title ELSE @]
            ELSE acc,
            Tail(new_resolutions))

\* lines 932-943
MergeResolutions(existing_resolutions, new_resolutions) ==
  IF existing_resolutions # <<>> /\ new_resolutions # <<>>
  THEN MergeResolutionLoop(existing_resolutions, existing_resolutions, new_resolutions)
  ELSE existing_resolutions

\* PerformanceGenerator._merge_event_data
MergeEventData(existing_event, new_event) ==
  CASE new_event.event_type = "N" -> MergeN(existing_event, new_event)
    [] new_event.event_type = "R" ->
         [existing_event EXCEPT
            !.prologue = MergePrologue(@, new_event.prologue),
            !.branches = MergeBranches(@, new_event.branches)]
    [] new_event.event_type = "SR" ->
         [existing_event EXCEPT
            !.prologue = MergePrologue(@, new_event.prologue),
            !.phases = MergePhases(@, new_event.phases),
            !.resolutions = MergeResolutions(@, new_event.resolutions)]
    [] OTHER -> existing_event

\* ------------------------------------------ _save_interactive_json: merge
\* f"{ts}_{etype}" (lines 809-811 and 816-818)
EventKey(event) == << event.time_slot, event.event_type >>

\* lines 815-825: map is existing_events_map, built once before the loop
RECURSIVE MergeLoop(_, _, _)
MergeLoop(map, acc, new_events) ==
  IF new_events = <<>> THEN acc
  ELSE LET new_event == Head(new_events)
           i == LastIndex({idx \in DOMAIN map : EventKey(map[idx]) = EventKey(new_event)})
       IN MergeLoop(map,
            IF i # 0 THEN [acc EXCEPT ![i] = MergeEventData(@, new_event)]
            ELSE Append(acc, new_event),
            Tail(new_events))

\* lines 805-828: the merge step, existing events and new events in, events of
\* the file out
MergeStep(existing_events, new_events) ==
  MergeLoop(existing_events, existing_events, new_events)

\* lines 434 and 805: "if time_slots" is false for None and for an empty list
TimeSlotsTruthy(slots) == slots.given /\ slots.slots # {}

\* lines 429-834: the events of interactive_data.json after the call
InteractiveAfterSave(old_file, slots, schedule, res, originals) ==
  LET new_events == NewEvents(schedule, res, originals)
  IN IF TimeSlotsTruthy(slots) /\ old_file # None
     THEN << MergeStep(old_file[1], new_events) >>
     ELSE << new_events >>

\* generate line 258
SaveInteractiveJson ==
  /\ phase = "interactive"
  /\ interactive_file' = InteractiveAfterSave(interactive_file, time_slots,
                                              schedule_data, results, events_data)
  /\ phase' = "returned"
  /\ UNCHANGED <<inputVars, ctl, hist, files, results, collected, report_file,
                 calls>>

\* ------------------------------------------------------- generate: prelude
\* generate lines 92-214: load the inputs, start from empty results, collect
\* the tasks and hand them to the pool. The output directory is left as the
\* earlier calls wrote it.
\* generate is a method: there is a generator only when the constructor returned
Constructed == IF construction = None THEN TRUE ELSE construction.outcome = "constructed"

Generate ==
  /\ Constructed
  /\ phase \in {"idle", "returned"}
  /\ calls # <<>>
  /\ calls' = Tail(calls)
  /\ time_slots' = Head(calls)
  /\ tasks' = CollectTasks(schedule_data, director_data, Head(calls))
  /\ ctl' = [t \in DOMAIN tasks' |-> InitCtl]
  /\ hist' = [t \in DOMAIN tasks' |-> InitHist]
  /\ results' = EmptyResults
  /\ collected' = {}
  /\ phase' = "collect"
  /\ UNCHANGED <<config, schedule_data, director_data, events_data, files,
                 report_file, interactive_file, query, runs, construction, batch>>

Next ==
  \/ Generate
  \/ \E t \in TaskIds : Start(t)
  \/ \E t \in TaskIds : GsiGenerate(t)
  \/ \E t \in TaskIds : GsiDownload(t)
  \/ \E t \in TaskIds : GsiSleep(t)
  \/ \E t \in TaskIds : GsvImage(t)
  \/ \E t \in TaskIds : GsvImageSleep(t)
  \/ \E t \in TaskIds : GsvSubmit(t)
  \/ \E t \in TaskIds : GsvSleep(t)
  \/ \E t \in TaskIds : GsvPoll(t)
  \/ \E t \in TaskIds : GsvDownload(t)
  \/ \E t \in TaskIds : Collect(t)
  \/ Summarize
  \/ SaveReport
  \/ SaveInteractiveJson

\* ------------------------------------------------------------------ inputs
\* One event of the day as the upstream stages wrote it into the three input
\* files: the schedule entry, the director output (R and SR events, one scene
\* per title) and the entry of the events file.
Story(event_type, time_slot, event_name, image_prompt, sora_prompt, scene_titles) ==
  [event_type |-> event_type, time_slot |-> time_slot, event_name |-> event_name,
   image_prompt |-> image_prompt, sora_prompt |-> sora_prompt,
   scene_titles |-> scene_titles]

\* schedule_data["events"]
ScheduleOf(stories) ==
  [i \in DOMAIN stories |->
     [event_type |-> stories[i].event_type, time_slot |-> stories[i].time_slot,
      event_name |-> stories[i].event_name,
      image_prompt |-> stories[i].image_prompt,
      sora_prompt |-> stories[i].sora_prompt]]

IsDirected(story) == story.event_type \in {"R", "SR"}

\* director_data["director_outputs"]
DirectorOf(stories) ==
  LET directed == SelectSeq(stories, IsDirected)
  IN [i \in DOMAIN directed |->
        [event_name |-> directed[i].event_name, event_type |-> directed[i].event_type,
         time_slot |-> directed[i].time_slot,
         scenes |-> [j \in DOMAIN directed[i].scene_titles |->
                       [scene_title |-> directed[i].scene_titles[j],
                        image_prompt |-> directed[i].image_prompt,
                        sora_prompt |-> directed[i].sora_prompt]]]]

\* the events file: R events with two branches, SR events with one phase and
\* one resolution
EventsOf(stories) ==
  LET directed == SelectSeq(stories, IsDirected)
  IN [i \in DOMAIN directed |->
        [event_name |-> directed[i].event_name, event_type |-> directed[i].event_type,
         time_slot |-> directed[i].time_slot, prologue |-> "text",
         branches |-> IF directed[i].event_type = "R"
                      THEN << [branch_id |-> <<"A">>, branch_title |-> "Trust"],
                              [branch_id |-> <<"B">>, branch_title |-> "Doubt"] >>
                      ELSE <<>>,
         phases |-> IF directed[i].event_type = "SR"
                    THEN << [phase_number |-> 1, video_file |-> None, scene_title |-> "",
                             narrative_title |-> "", choices |-> <<>>] >>
                    ELSE <<>>,
         resolutions |-> IF directed[i].event_type = "SR"
                         THEN << [ending_id |-> <<"a">>, video_file |-> None,
                                  scene_title |-> ""] >>
                         ELSE <<>>]]

\* the time_slots argument: None, or a list of time slots
NoSlots == [given |-> FALSE, slots |-> {}]

Slots(set) == [given |-> TRUE, slots |-> set]

Config(max_workers, max_retry_on_timeout, video_timeout_seconds) ==
  [max_workers |-> max_workers, max_retry_on_timeout |-> max_retry_on_timeout,
   video_timeout_seconds |-> video_timeout_seconds, timeout_retry_enabled |-> TRUE,
   provider |-> "any"]

\* the state before the first call of generate on an empty output directory
InitWith(stories, cfg, requests) ==
  /\ config = cfg
  /\ schedule_data = ScheduleOf(stories)
  /\ director_data = DirectorOf(stories)
  /\ events_data = EventsOf(stories)
  /\ calls = requests
  /\ time_slots = NoSlots
  /\ tasks = <<>>
  /\ ctl = <<>>
  /\ hist = <<>>
  /\ files = <<>>
  /\ results = EmptyResults
  /\ collected = {}
  /\ phase = "idle"
  /\ report_file = None
  /\ interactive_file = None
  /\ query = None
  /\ runs = None
  /\ construction = None
  /\ batch = None

\* ----------------------------------------------------------- one scene task
\* a day with one scene: an N event or an R event with its prologue, with
\* every combination of image prompt and video prompt
TaskStories ==
  { << Story(shape[1], TS09, NameCoffee, image_prompt, sora_prompt, shape[2]) >> :
      shape \in { <<"N", <<>> >>, <<"R", <<TitlePrologue>> >> },
      image_prompt \in BOOLEAN, sora_prompt \in BOOLEAN }

InitTask ==
  \E stories \in TaskStories, k \in 0..MaxRetry, timeout \in 1..MaxTimeout :
    InitWith(stories, Config(1, k, timeout), << NoSlots >>)

SpecTask == InitTask /\ [][Next]_vars

\* the same scenes with timeout_retry_enabled = false in [video_generation]
InitNoRetry ==
  \E stories \in TaskStories, k \in 0..MaxRetry, timeout \in 1..MaxTimeout :
    InitWith(stories, [Config(1, k, timeout) EXCEPT !.timeout_retry_enabled = FALSE],
             << NoSlots >>)

SpecNoRetry == InitNoRetry /\ [][Next]_vars

\* -------------------------------------------------------------- one batch
\* days of up to NumTasks scenes, among them an N event whose event_name is a
\* JSON null and a director scene whose scene_title is a JSON null
BatchStories ==
  LET n09(name) == Story("N", TS09, name, TRUE, TRUE, <<>>)
      n14 == Story("N", TS14, NameLunch, TRUE, FALSE, <<>>)
      r14(titles) == Story("R", TS14, NameLunch, TRUE, TRUE, titles)
      sr14(titles) == Story("SR", TS14, NameLunch, TRUE, TRUE, titles)
      days == { << n09(NameCoffee), r14(<<TitlePrologue>>) >>,
                << n09(None), r14(<<TitlePrologue>>) >>,
                << n09(NameCoffee), n14 >>,
                << n09(None), n14 >>,
                << r14(<<TitlePrologue, TitleBranchA>>) >>,
                << r14(<<TitlePrologue, TitleNull>>) >>,
                << sr14(<<TitlePrologue, TitleEnding>>) >>,
                << n09(NameCoffee), r14(<<TitlePrologue, TitleBranchA>>) >>,
                << n09(None), sr14(<<TitlePrologue, TitleEnding>>) >> }
  IN { day \in days :
         Len(CollectTasks(ScheduleOf(day), DirectorOf(day), NoSlots)) <= NumTasks }

Init ==
  \E stories \in BatchStories, max_workers \in 1..MaxWorkers :
    InitWith(stories, Config(max_workers, 0, 1), << NoSlots >>)

Spec == Init /\ [][Next]_vars

\* ------------------------------------------- a re-run over the same directory
\* the events a day is made of: every event type in every time slot, R events
\* under three names of which one contains another
MergeShapes ==
  { Story("N", time_slot, NameLunch, TRUE, TRUE, <<>>) : time_slot \in TimeSlotValues }
  \cup { Story("R", time_slot, event_name, TRUE, TRUE, <<TitlePrologue>>) :
           time_slot \in TimeSlotValues,
           event_name \in {NameCoffee, NameCoffeeBreak, NameLunch} }
  \cup { Story("SR", time_slot, NameCoffee, TRUE, TRUE, <<TitlePrologue>>) :
           time_slot \in TimeSlotValues }

\* the schedule lists the events of the day in time order
SlotOrder(a, b) == a = b \/ (a = TS09 /\ b = TS14)

MergeStories ==
  { stories \in UNION { [1..n -> MergeShapes] : n \in 1..MaxEvents } :
      \A i, j \in DOMAIN stories :
        i < j => SlotOrder(stories[i].time_slot, stories[j].time_slot) }

\* a first call of generate, then a call restricted to one time slot
InitMerge ==
  \E stories \in MergeStories,
     first \in {NoSlots} \cup {Slots({time_slot}) : time_slot \in TimeSlotValues},
     second \in {Slots({time_slot}) : time_slot \in TimeSlotValues} :
    InitWith(stories, Config(1, 0, 1), << first, second >>)

SpecMerge == InitMerge /\ [][Next]_vars

\* one call of generate for the whole day, over the same days
InitDay ==
  \E stories \in MergeStories, max_workers \in 1..MaxWorkers :
    InitWith(stories, Config(max_workers, 0, 1), << NoSlots >>)

SpecDay == InitDay /\ [][Next]_vars

\* ------------------------------------------- three scenes against the mock
\* one R event of three scenes, each with an image prompt and a video prompt,
\* run by two workers against the provider mock
ScenarioStories ==
  << Story("R", TS09, NameCoffee, TRUE, TRUE,
           <<TitlePrologue, TitleBranchA, TitleBranchB>>) >>

ScenarioConfig(max_retry_on_timeout, video_timeout_seconds) ==
  [Config(2, max_retry_on_timeout, video_timeout_seconds) EXCEPT !.provider = "mock"]

InitScenario ==
  \E k \in 0..MaxRetry, timeout \in 1..MaxTimeout :
    InitWith(ScenarioStories, ScenarioConfig(k, timeout), << NoSlots >>)

SpecScenario == InitScenario /\ [][Next]_vars

\* ------------------------------------------------ one long wait for a video
\* one scene whose video timeout leaves room for more polls than the ceiling
\* on consecutive query failures
InitPoll ==
  \E k \in 0..MaxRetry :
    InitWith(<< Story("N", TS09, NameCoffee, TRUE, TRUE, <<>>) >>,
             Config(1, k, max_consecutive_failures + MaxTimeout), << NoSlots >>)

SpecPoll == InitPoll /\ [][Next]_vars

\* ------------------------------------------ one event generated a second time
\* a day of one event with two scenes at most, generated once, for the whole
\* day or for another time slot, and then for its time slot over the same
\* output directory
RerunStories ==
  { << Story("N", TS09, NameCoffee, TRUE, TRUE, <<>>) >>,
    << Story("R", TS09, NameCoffee, TRUE, TRUE, <<TitlePrologue, TitleBranchA>>) >>,
    << Story("R", TS09, NameCoffee, TRUE, TRUE, <<TitleBranchA, TitleBranchB>>) >>,
    << Story("SR", TS09, NameCoffee, TRUE, TRUE, <<TitlePrologue, TitleEnding>>) >> }

InitRerun ==
  \E stories \in RerunStories, first \in {NoSlots, Slots({TS14})} :
    InitWith(stories, Config(1, 0, 1), << first, Slots({TS09}) >>)

SpecRerun == InitRerun /\ [][Next]_vars

\* ------------------------------------------------------- one status query
\* what one GET of a status endpoint can come to: requests raises, a status
\* code other than 200, a body that is no JSON, JSON that is no object, an
\* object with an error code, an object whose data is no object, or a job
\* status (0..3 are the statuses the provider documents, 4 stands for any other)
Responses ==
  {"request_error", "http_error", "not_json", "not_object", "error_code", "no_data",
   "status_0", "status_1", "status_2", "status_3", "status_4"}

JobStatuses == {"status_0", "status_1", "status_2", "status_3", "status_4"}

\* _query_sora2_status: the two detail endpoints are asked in turn, each inside
\* try/except; the first job status found is mapped and returned. When neither
\* gave one, the warning after the loop slices task_id[:20], outside any try:
\* a TypeError when the id is not a string.
Sora2Status(task_id, query_available, responses) ==
  LET found == {i \in DOMAIN responses : responses[i] \in JobStatuses} IN
  IF ~query_available THEN "none"
  ELSE IF found # {}
  THEN LET status == responses[FirstIndex(found)] IN
       CASE status = "status_0" -> "submitted"
         [] status = "status_1" -> "success"
         [] status = "status_2" -> "failed"
         [] status = "status_3" -> "processing"
         [] OTHER -> "unknown"
  ELSE IF task_id = "str" THEN "none" ELSE "raise"

\* _query_kling_status: one GET, everything after the headers inside
\* try/except Exception; the HTTP status is not looked at, task_status is
\* returned as the provider sent it
KlingStatus(task_id, responses) ==
  IF responses[1] \in JobStatuses THEN "task_status" ELSE "none"

\* query_image_status: one GET inside try/except Exception
ImageStatus(image_id, responses) ==
  LET status == responses[1] IN
  CASE status = "status_0" -> "submitted"
    [] status = "status_1" -> "processing"
    [] status = "status_2" -> "success"
    [] status = "status_3" -> "failed"
    [] status = "status_4" -> "unknown"
    [] OTHER -> "none"

\* the job ids a submission hands on: submit_video returns data.id (sora2) or
\* data.task_id (kling) as the JSON value it is, a string or a number;
\* _generate_image_nanobanana passes str(image_id)
Queries ==
  { [model |-> "sora2", task_id |-> id, responses |-> <<r1, r2>>, answer |-> "pending"] :
      id \in {"str", "int"}, r1 \in Responses, r2 \in Responses }
  \cup { [model |-> "kling", task_id |-> id, responses |-> <<r1>>, answer |-> "pending"] :
      id \in {"str", "int"}, r1 \in Responses }
  \cup { [model |-> "nanobanana", task_id |-> "str", responses |-> <<r1>>,
          answer |-> "pending"] : r1 \in Responses }

\* query_video_status: dispatch on the model
QueryVideoStatus ==
  /\ query # None
  /\ query.answer = "pending"
  /\ query.model \in {"sora2", "kling"}
  /\ query' = [query EXCEPT !.answer =
                 IF query.model = "kling" THEN KlingStatus(query.task_id, query.responses)
                 ELSE Sora2Status(query.task_id, TRUE, query.responses)]
  /\ UNCHANGED <<config, schedule_data, director_data, events_data, time_slots, tasks,
                 ctl, hist, files, results, collected, phase,
                 report_file, interactive_file, calls, runs, construction, batch>>

QueryImageStatus ==
  /\ query # None
  /\ query.answer = "pending"
  /\ query.model = "nanobanana"
  /\ query' = [query EXCEPT !.answer = ImageStatus(query.task_id, query.responses)]
  /\ UNCHANGED <<config, schedule_data, director_data, events_data, time_slots, tasks,
                 ctl, hist, files, results, collected, phase,
                 report_file, interactive_file, calls, runs, construction, batch>>

InitQuery ==
  /\ query \in Queries
  /\ config = Config(1, 0, 1)
  /\ schedule_data = ScheduleOf(<<>>)
  /\ director_data = DirectorOf(<<>>)
  /\ events_data = EventsOf(<<>>)
  /\ calls = <<>>
  /\ time_slots = NoSlots
  /\ tasks = <<>>
  /\ ctl = <<>>
  /\ hist = <<>>
  /\ files = <<>>
  /\ results = EmptyResults
  /\ collected = {}
  /\ phase = "idle"
  /\ report_file = None
  /\ interactive_file = None
  /\ runs = None
  /\ construction = None
  /\ batch = None

NextQuery ==
  \/ QueryVideoStatus
  \/ QueryImageStatus

SpecQuery == InitQuery /\ [][NextQuery]_vars

\* ------------------------------- two processes saving the interactive data
\* the locals of a scene task that returned with its image, with or without
\* its video
ReturnedCtl(task, with_video) ==
  [InitCtl EXCEPT !.pc = "returned", !.image_path = ImagePath(task),
                  !.video_path = IF with_video THEN VideoPath(task) ELSE None,
                  !.task_id = IF task.scene.sora_prompt THEN 1 ELSE 0]

\* the results of a generate call whose time slots hold one scene
ResultsOfRun(stories, slots, with_video) ==
  ResultsAfterFuture(EmptyResults,
    CollectTasks(ScheduleOf(stories), DirectorOf(stories), slots)[1],
    ReturnedCtl(CollectTasks(ScheduleOf(stories), DirectorOf(stories), slots)[1],
                with_video))

\* _save_interactive_json lines 429-441: load the file when time_slots is given
\* and the file exists
LoadInteractive(r) ==
  /\ runs # None
  /\ runs[r].pc = "load"
  /\ runs' = [runs EXCEPT ![r].pc = "save",
                          ![r].existing_data =
                             IF TimeSlotsTruthy(runs[r].time_slots)
                             THEN interactive_file ELSE None]
  /\ UNCHANGED <<config, schedule_data, director_data, events_data, time_slots, tasks,
                 ctl, hist, files, results, collected, phase,
                 report_file, interactive_file, calls, query, construction, batch>>

\* _save_interactive_json lines 443-832: build the events of this run, merge
\* them into the loaded data and write the file
SaveInteractive(r) ==
  /\ runs # None
  /\ runs[r].pc = "save"
  /\ interactive_file' = InteractiveAfterSave(runs[r].existing_data, runs[r].time_slots,
                                              schedule_data, runs[r].results, events_data)
  /\ runs' = [runs EXCEPT ![r].pc = "done"]
  /\ UNCHANGED <<config, schedule_data, director_data, events_data, time_slots, tasks,
                 ctl, hist, files, results, collected, phase,
                 report_file, calls, query, construction, batch>>

\* a day with one single-scene event in each time slot; the output directory
\* is empty or holds the file of an earlier call in which no video was made
SaveStories ==
  { << Story(first, TS09, NameCoffee, TRUE, TRUE, IF first = "N" THEN <<>> ELSE <<TitlePrologue>>),
       Story(second, TS14, NameLunch, TRUE, TRUE, IF second = "N" THEN <<>> ELSE <<TitlePrologue>>) >> :
      first \in {"N", "R"}, second \in {"N", "R"} }

RunOf(stories, time_slot, with_video) ==
  [time_slots |-> Slots({time_slot}), pc |-> "load", existing_data |-> None,
   results |-> ResultsOfRun(stories, Slots({time_slot}), with_video)]

\* one call for the morning slot and one for the afternoon slot, for the same
\* character and date
InitSave ==
  \E stories \in SaveStories, video1 \in BOOLEAN, video2 \in BOOLEAN, earlier \in BOOLEAN :
    /\ runs = << RunOf(stories, TS09, video1), RunOf(stories, TS14, video2) >>
    /\ interactive_file =
         IF earlier
         THEN << NewEvents(ScheduleOf(stories), EmptyResults, EventsOf(stories)) >>
         ELSE None
    /\ config = Config(1, 0, 1)
    /\ schedule_data = ScheduleOf(stories)
    /\ director_data = DirectorOf(stories)
    /\ events_data = EventsOf(stories)
    /\ calls = <<>>
    /\ time_slots = NoSlots
    /\ tasks = <<>>
    /\ ctl = <<>>
    /\ hist = <<>>
    /\ files = <<>>
    /\ results = EmptyResults
    /\ collected = {}
    /\ phase = "idle"
    /\ report_file = None
    /\ query = None
    /\ construction = None
    /\ batch = None

NextSave ==
  \/ \E r \in DOMAIN runs : LoadInteractive(r)
  \/ \E r \in DOMAIN runs : SaveInteractive(r)

SpecSave == InitSave /\ [][NextSave]_vars

\* ------------------------------------------------ constructing the generator
\* the sections of config.ini the constructor loads, in the order it loads them:
\* load_video_model_config, then load_image_model_config
ConfigSections ==
  << "video_models.sora2", "video_models.kling", "video_generation",
     "image_models.nano_banana", "image_models.seedream", "image_upload" >>

\* a section of the file: not there, there without one of its required keys
\* (an API key, say), there with a required key whose value is empty, complete
SectionStates == {"absent", "lacks_key", "empty_value", "complete"}

\* a section that loads whatever it holds
LoadSectionAnyway(state) == TRUE

\* _load_section: raises unless the section is there and section.get(key) is
\* not None for every required key
LoadSection(state) == state \in {"empty_value", "complete"}

\* VideoGenerationConfig.from_config: raises unless the section is there and
\* every required value is truthy
FromConfig(state) == state = "complete"

\* the loaders return
SectionsLoad(file) ==
  \A i \in DOMAIN ConfigSections :
    IF ConfigSections[i] = "video_generation" THEN FromConfig(file[i])
    ELSE LoadSection(file[i])

\* image_model or video_config.default_image_model (and the same for video):
\* the defaults of the file are nano_banana and sora2
Selected(argument, default) == IF argument = None THEN default ELSE argument

\* PerformanceGenerator.__init__ lines 38-81
ConstructorOutcome(file, image_model, video_model) ==
  IF ~SectionsLoad(file) THEN "ValueError"
  ELSE IF Selected(image_model, <<"nano_banana">>) \notin {<<"seedream">>, <<"nano_banana">>}
  THEN "ValueError"
  ELSE IF Selected(video_model, <<"sora2">>) \notin {<<"sora2">>, <<"kling">>}
  THEN "ValueError"
  ELSE "constructed"

Construct ==
  /\ construction # None
  /\ construction.outcome = "pending"
  /\ construction' = [construction EXCEPT !.outcome =
        ConstructorOutcome(construction.file, construction.image_model,
                           construction.video_model)]
  /\ UNCHANGED <<config, schedule_data, director_data, events_data, time_slots, tasks,
                 ctl, hist, files, results, collected, phase,
                 report_file, interactive_file, calls, query, runs, batch>>

\* every config file, with the model arguments left out, supported or not,
\* and one call of generate for a day of one scene to follow
InitConstruct ==
  \E file \in [DOMAIN ConfigSections -> SectionStates],
     image_model \in {None, <<"seedream">>, <<"dalle">>},
     video_model \in {None, <<"kling">>, <<"veo">>} :
    /\ construction = [file |-> file, image_model |-> image_model,
                       video_model |-> video_model, outcome |-> "pending"]
    /\ config = Config(1, 0, 1)
    /\ schedule_data = ScheduleOf(<< Story("N", TS09, NameCoffee, TRUE, TRUE, <<>>) >>)
    /\ director_data = <<>>
    /\ events_data = <<>>
    /\ calls = << NoSlots >>
    /\ time_slots = NoSlots
    /\ tasks = <<>>
    /\ ctl = <<>>
    /\ hist = <<>>
    /\ files = <<>>
    /\ results = EmptyResults
    /\ collected = {}
    /\ phase = "idle"
    /\ report_file = None
    /\ interactive_file = None
    /\ query = None
    /\ runs = None
    /\ batch = None

NextConstruct ==
  \/ Construct
  \/ Generate
  \/ \E t \in TaskIds : Start(t)
  \/ \E t \in TaskIds : GsiGenerate(t)
  \/ \E t \in TaskIds : GsiDownload(t)
  \/ \E t \in TaskIds : GsiSleep(t)
  \/ \E t \in TaskIds : GsvImage(t)
  \/ \E t \in TaskIds : GsvImageSleep(t)
  \/ \E t \in TaskIds : GsvSubmit(t)
  \/ \E t \in TaskIds : GsvSleep(t)
  \/ \E t \in TaskIds : GsvPoll(t)
  \/ \E t \in TaskIds : GsvDownload(t)
  \/ \E t \in TaskIds : Collect(t)
  \/ Summarize
  \/ SaveReport
  \/ SaveInteractiveJson

SpecConstruct == InitConstruct /\ [][NextConstruct]_vars

\* ------------------------------------------- VideoTaskQuery.process_all_tasks
\* the task lists load_tasks_from_report can hand over: up to NumTasks entries,
\* each with one of NumTasks task ids, so that an id can occur twice
TaskLists == UNION { [1..n -> 1..NumTasks] : n \in 1..NumTasks }

InitWorker == [pc |-> "queued", queried |-> FALSE, result |-> None]

\* the entries of the list a pool thread is running process_single_task for
BatchRunning(b) == {i \in DOMAIN b.wk : b.wk[i].pc \notin {"queued", "done"}}

\* process_single_task has returned for the entry
Returned(b, i, status) == [b EXCEPT !.wk[i].pc = "done", !.wk[i].result = status]

\* process_all_tasks touches nothing of the generator
BatchFrame ==
  UNCHANGED <<config, schedule_data, director_data, events_data, time_slots, tasks,
              ctl, hist, files, results, collected, phase,
              report_file, interactive_file, calls, query, runs, construction>>

\* the top of the loop of process_single_task: the test
\* `time.time() - start_time < self.max_poll_time` (line 212), start_time being
\* the one process_all_tasks took before the pool (line 291), and the check
\* under the lock (lines 214-216)
LoopTop(b, i) ==
  IF ~(b.now < b.max_poll_time) THEN Returned(b, i, "timeout")
  ELSE IF b.tasks[i] \in b.completed_tasks THEN Returned(b, i, "completed_by_other")
  ELSE [b EXCEPT !.wk[i].pc = "query"]

\* a pool thread takes the next entry of the queue and runs
\* process_single_task up to its first query: the check of lines 204-207 and
\* the first loop test, which follow one another at once
PstStart(i) ==
  /\ BatchFrame
  /\ batch # None
  /\ i \in DOMAIN batch.wk
  /\ batch.wk[i].pc = "queued"
  /\ \A j \in DOMAIN batch.wk : j < i => batch.wk[j].pc # "queued"
  /\ Cardinality(BatchRunning(batch)) < batch.max_workers
  /\ batch' = IF batch.tasks[i] \in batch.completed_tasks
               THEN Returned(batch, i, "already_completed")
               ELSE LoopTop(batch, i)

\* time.sleep(self.poll_interval) is over: the loop test again
PstLoop(i) ==
  /\ BatchFrame
  /\ batch # None
  /\ i \in DOMAIN batch.wk
  /\ batch.wk[i].pc = "loop"
  /\ batch' = LoopTop(batch, i)

\* the job of a task id at the provider: it ends once, as success or failed
JobAfter(job) == IF job = "pending" THEN {"pending", "success", "failed"} ELSE {job}

\* what query_task_status can answer for a job in the state
AnswersOf(job) ==
  CASE job = "pending" -> {"none", "submitted", "processing", "unknown"}
    [] job = "success" -> {"none", "success_url"}
    [] OTHER -> {"none", "failed"}

\* query_task_status and the branches on its answer (lines 219-268), up to
\* download_video
PstQuery(i) ==
  /\ BatchFrame
  /\ batch # None
  /\ i \in DOMAIN batch.wk
  /\ batch.wk[i].pc = "query"
  /\ \E job \in JobAfter(batch.job[batch.tasks[i]]) :
       \E answer \in AnswersOf(job) :
         LET b == [batch EXCEPT !.wk[i].queried = TRUE, !.job[batch.tasks[i]] = job]
         IN batch' =
              CASE answer = "success_url" -> [b EXCEPT !.wk[i].pc = "download"]
                [] answer = "failed" ->
                     Returned([b EXCEPT !.completed_tasks = @ \cup {b.tasks[i]}], i, "failed")
                [] OTHER -> [b EXCEPT !.wk[i].pc = "loop"]

\* download_video and what follows it (lines 238-253)
PstDownload(i) ==
  /\ BatchFrame
  /\ batch # None
  /\ i \in DOMAIN batch.wk
  /\ batch.wk[i].pc = "download"
  /\ \E ok \in BOOLEAN :
       LET b == [batch EXCEPT
                   !.late_download = @ \/ batch.tasks[i] \in batch.completed_tasks]
       IN batch' =
            IF ok
            THEN Returned([b EXCEPT !.completed_tasks = @ \cup {b.tasks[i]},
                                    !.downloads[b.tasks[i]] = Min(@ + 1, NumTasks)],
                          i, "success")
            ELSE Returned(b, i, "download_failed")

\* time passes while the pool is at work (time.sleep(poll_interval), the
\* request of a query, a download); a free pool thread takes a queued entry
\* before any time has passed
Tick ==
  /\ BatchFrame
  /\ batch # None
  /\ BatchRunning(batch) # {}
  /\ \/ Cardinality(BatchRunning(batch)) >= batch.max_workers
     \/ \A i \in DOMAIN batch.wk : batch.wk[i].pc # "queued"
  /\ batch.now < batch.max_poll_time
  /\ batch' = [batch EXCEPT !.now = @ + 1]

\* how many entries ended with the status
CountOf(b, status) == Cardinality({i \in DOMAIN b.wk : b.wk[i].result = status})

\* process_all_tasks lines 319-358: every future has been collected
ProcessAllTasksReturns ==
  /\ BatchFrame
  /\ batch # None
  /\ batch.summary = None
  /\ \A i \in DOMAIN batch.wk : batch.wk[i].pc = "done"
  /\ batch' = [batch EXCEPT !.summary =
        [total |-> Len(batch.tasks), success |-> CountOf(batch, "success"),
         failed |-> CountOf(batch, "failed"), timeout |-> CountOf(batch, "timeout")]]

InitBatch ==
  \E list \in TaskLists, max_workers \in 1..MaxWorkers, max_poll_time \in 1..MaxTimeout :
    /\ batch = [tasks |-> list, max_workers |-> max_workers,
                max_poll_time |-> max_poll_time, now |-> 0, completed_tasks |-> {},
                wk |-> [i \in DOMAIN list |-> InitWorker],
                job |-> [id \in 1..NumTasks |-> "pending"],
                downloads |-> [id \in 1..NumTasks |-> 0],
                late_download |-> FALSE, summary |-> None]
    /\ config = Config(1, 0, 1)
    /\ schedule_data = <<>>
    /\ director_data = <<>>
    /\ events_data = <<>>
    /\ calls = <<>>
    /\ time_slots = NoSlots
    /\ tasks = <<>>
    /\ ctl = <<>>
    /\ hist = <<>>
    /\ files = <<>>
    /\ results = EmptyResults
    /\ collected = {}
    /\ phase = "idle"
    /\ report_file = None
    /\ interactive_file = None
    /\ query = None
    /\ runs = None
    /\ construction = None

NextBatch ==
  \/ \E i \in 1..NumTasks : PstStart(i)
  \/ \E i \in 1..NumTasks : PstLoop(i)
  \/ \E i \in 1..NumTasks : PstQuery(i)
  \/ \E i \in 1..NumTasks : PstDownload(i)
  \/ Tick
  \/ ProcessAllTasksReturns

SpecBatch == InitBatch /\ [][NextBatch]_vars

\* ================================================================== claims
\* the number of scene results in a report: the entries of n_events plus the
\* scenes of all r_events and sr_events
TotalScenes(res) ==
  Len(res.n_events) + SumScenes(res.r_events) + SumScenes(res.sr_events)

\* C1: when generate has returned, the report holds exactly as many scene
\* results as tasks were collected, whatever each task did (success, provider
\* failure, timeout, exception raised inside the task).
C1_ReportHoldsEveryTask ==
  phase = "returned" => TotalScenes(results) = Len(tasks)

\* C2: for every scene, whatever prompts it carries, a submit_video call has
\* been made only if a download_file call for an image of that scene returned
\* true before.
C2_NoSubmitBeforeImageDownload ==
  \A t \in TaskIds : hist[t].submits > 0 => hist[t].image_dl = "ok"

\* C3: a scene task with a video stage whose polls only ever answered
\* submitted or processing has, once it returned, made exactly
\* max_retry_on_timeout + 1 submit_video calls, and its result has video_path
\* null and image_path non-null.
C3_NeverTerminalProvider ==
  \A t \in TaskIds :
    (/\ ctl[t].pc = "returned"
     /\ tasks[t].scene.sora_prompt
     /\ hist[t].pending_only)
    => /\ hist[t].submits = config.max_retry_on_timeout + 1
       /\ ctl[t].video_path = None
       /\ ctl[t].image_path # None

\* a call restricted to a set of time slots finds this file in the output
\* directory and is about to rewrite it
RestrictedOver(file) == time_slots.given /\ file # None

\* the stored events that lie outside the requested time slots
OutsideSlots(events) ==
  {i \in DOMAIN events : events[i].time_slot \notin time_slots.slots}

\* C4: when a run restricted to the time slots S rewrites an existing
\* interactive_data file, every stored event whose time_slot is not in S is
\* still there afterwards, with every field as it was.
C4_StoredEventsOutsideSlotsUntouched ==
  [][(phase = "interactive" /\ phase' = "returned" /\ RestrictedOver(interactive_file))
     => \A i \in OutsideSlots(interactive_file[1]) :
          /\ i \in DOMAIN interactive_file'[1]
          /\ interactive_file'[1][i] = interactive_file[1][i]]_vars

ScenesOfEvents(events) ==
  UNION { {events[i].scenes[j] : j \in DOMAIN events[i].scenes} : i \in DOMAIN events }

\* the scene entries of a generation report
SceneEntries(res) ==
  {res.n_events[i] : i \in DOMAIN res.n_events}
  \cup ScenesOfEvents(res.r_events) \cup ScenesOfEvents(res.sr_events)

\* the scene entries of a report that lie outside the requested time slots
EntriesOutsideSlots(res) ==
  {entry \in SceneEntries(res) :
     DashSlot(entry.time_slot) \notin {DashSlot(slot) : slot \in time_slots.slots}}

\* C5: when a run restricted to the time slots S writes the generation report
\* over the report of an earlier run, every earlier scene entry whose time
\* slot is not in S is still in the persisted report, unchanged.
C5_PriorReportEntriesKept ==
  [][(phase = "report" /\ phase' = "interactive" /\ RestrictedOver(report_file))
     => EntriesOutsideSlots(report_file[1]) \subseteq SceneEntries(report_file'[1])]_vars

\* the merge step applied once more to its own output gives that output
MergeIsIdempotentOn(once, new_events) == MergeStep(once, new_events) = once

VideoStage == {"gsv_image", "gsv_image_sleep", "gsv_submit", "gsv_sleep",
               "gsv_wait", "gsv_download"}

\* the submissions made so far against the retry counter of the video loop:
\* one more than video_retry while an attempt is in flight
SubmissionsCounted(c, h) ==
  CASE c.pc \in {"gsv_wait", "gsv_download"} -> h.submits = c.video_retry + 1
    [] c.pc \in {"gsv_submit", "gsv_sleep"} -> h.submits = c.video_retry
    [] OTHER -> TRUE

\* C7: whatever the providers answer, one scene task makes at most
\* max_retry_on_timeout + 1 submit_video calls, every failed attempt (failed
\* submission, provider failure, timeout, failed video download) having used up
\* one of them; a task that returns without a video has made all of them and
\* has video_path null; and from the video stage on the task keeps the
\* image_path its image stage produced.
C7_VideoRetryBudget ==
  \A t \in TaskIds :
    /\ hist[t].submits <= config.max_retry_on_timeout + 1
    /\ SubmissionsCounted(ctl[t], hist[t])
    /\ (ctl[t].pc = "returned" /\ tasks[t].scene.sora_prompt /\ hist[t].video_dl # "ok")
       => (hist[t].submits = config.max_retry_on_timeout + 1 /\ ctl[t].video_path = None)
    /\ (ctl[t].pc \in VideoStage \cup {"returned"} /\ tasks[t].scene.image_prompt)
       => ctl[t].image_path = ImagePath(tasks[t])
    /\ (ctl[t].pc \in VideoStage \cup {"returned"} /\ ~tasks[t].scene.image_prompt)
       => ctl[t].image_path = None

\* a task gave up on the video after a failed video download, with more than
\* one submission, and still holds its image
C7_Witness ==
  \E t \in TaskIds :
    /\ ctl[t].pc = "returned"
    /\ hist[t].submits = config.max_retry_on_timeout + 1
    /\ hist[t].submits > 1
    /\ hist[t].video_dl = "failed"
    /\ ctl[t].video_path = None
    /\ ctl[t].image_path = ImagePath(tasks[t])

\* C8: image_path (video_path) of a task is non-null only if the last
\* download_file call to that path returned true and left the complete file;
\* after a download_file call that returned false the path is not recorded.
C8_PathOnlyAfterTrueDownload ==
  \A t \in TaskIds :
    /\ ctl[t].image_path # None
       => /\ ctl[t].image_path = ImagePath(tasks[t])
          /\ hist[t].image_dl = "ok"
          /\ FileState(files, ImagePath(tasks[t])) = "complete"
    /\ ctl[t].video_path # None
       => /\ ctl[t].video_path = VideoPath(tasks[t])
          /\ hist[t].video_dl = "ok"
          /\ FileState(files, VideoPath(tasks[t])) = "complete"

\* a task returned after its last video download returned false and left a
\* truncated file behind
C8_Witness ==
  \E t \in TaskIds :
    /\ ctl[t].pc = "returned"
    /\ hist[t].video_dl = "failed"
    /\ FileState(files, VideoPath(tasks[t])) = "partial"
    /\ ctl[t].video_path = None
    /\ ctl[t].image_path # None

\* ------------------------------------------------------------ scheduling
\* every pool thread that can run does run, and so does the main thread
Fairness ==
  /\ \A t \in 1..NumTasks : WF_vars(t \in TaskIds /\ TaskStep(t))
  /\ WF_vars(Generate)
  /\ WF_vars(\E t \in TaskIds : Collect(t))
  /\ WF_vars(Summarize)
  /\ WF_vars(SaveReport)
  /\ WF_vars(SaveInteractiveJson)

\* one call of generate on a day of one or two scenes
FairStories ==
  { << Story("N", TS09, NameCoffee, TRUE, TRUE, <<>>) >>,
    << Story("N", TS09, NameCoffee, TRUE, FALSE, <<>>),
       Story("R", TS14, NameLunch, FALSE, TRUE, <<TitlePrologue>>) >> }

InitFair ==
  \E stories \in FairStories, max_workers \in 1..MaxWorkers :
    InitWith(stories, Config(max_workers, 0, 1), << NoSlots >>)

SpecFair == InitFair /\ [][Next]_vars /\ Fairness

\* the task is inside one of the two image loops that have no retry ceiling
InImageLoop(t) ==
  ctl[t].pc \in {"gsi_generate", "gsi_download", "gsi_sleep",
                 "gsv_image", "gsv_image_sleep"}

\* C9 as stated: whatever the providers do, generate eventually returns (which
\* it does only after every task reached a terminal result and the report
\* files were written).
C9_GenerateAlwaysReturns == <>(phase = "returned")

\* C9 amended: unless some task stays inside an image retry loop for ever,
\* every task reaches a terminal result and generate eventually returns,
\* whatever the video provider does.
C9_ReturnsUnlessImageRetriesForever ==
  <>[](\E t \in TaskIds : InImageLoop(t)) \/ <>(phase = "returned")

\* generate returned although a task had to give up on its video
C9_Witness ==
  /\ phase = "returned"
  /\ \E t \in TaskIds : /\ tasks[t].scene.sora_prompt
                        /\ ctl[t].pc = "returned"
                        /\ ctl[t].video_path = None
                        /\ ctl[t].image_path # None

\* the scene result of a task is in the report
Recorded(res, task, c) ==
  IF task.task_type = "n_event"
  THEN SceneResult(task, c) \in {res.n_events[i] : i \in DOMAIN res.n_events}
  ELSE SceneResult(task, c) \in ScenesOfEvents(res.r_events)
                                \cup ScenesOfEvents(res.sr_events)

\* C10: a task that raised or failed never aborts the batch: the program
\* never stops before generate has returned, and when it has returned every
\* task is terminal, every task that returned a result is recorded in the
\* report, the summary is computed and both report files are written.
C10_FailureNeverAbortsBatch ==
  /\ (ENABLED Next) \/ (phase = "returned" /\ calls = <<>>)
  /\ phase = "returned"
     => /\ \A t \in TaskIds : ctl[t].pc \in {"returned", "raised"}
        /\ \A t \in TaskIds : ctl[t].pc = "returned" => Recorded(results, tasks[t], ctl[t])
        /\ results.summary = GenerateSummary(results)
        /\ report_file = <<results>>
        /\ interactive_file # None

\* generate returned from a batch in which one task raised and another task,
\* which gave up on its video, is recorded
C10_Witness ==
  /\ phase = "returned"
  /\ \E t, u \in TaskIds :
       /\ ctl[t].pc = "raised"
       /\ ctl[u].pc = "returned"
       /\ tasks[u].scene.sora_prompt
       /\ ctl[u].video_path = None
       /\ Recorded(results, tasks[u], ctl[u])

\* the scene tasks being executed: threads inside _process_scene_task
Executing == {t \in TaskIds : Running(t)}

\* C11: at every moment of a generate run at most max_workers scene tasks are
\* being executed, however many tasks are queued.
C11_AtMostMaxWorkersExecuting == Cardinality(Executing) <= config.max_workers

\* every worker is busy while a task is still waiting in the queue
C11_Witness ==
  /\ Cardinality(Executing) = config.max_workers
  /\ \E t \in TaskIds : ctl[t].pc = "queued"

\* the scene results of the report
ReportScenes == ScenesOfEvents(results.r_events) \cup ScenesOfEvents(results.sr_events)

\* the report has exactly one entry for the scene of this title, and it
\* satisfies the two tests on its image_path and video_path
SceneReported(title, with_image, with_video) ==
  /\ Cardinality({r \in ReportScenes : r.scene_title = title}) = 1
  /\ \A r \in ReportScenes :
       r.scene_title = title
       => /\ (r.image_path # None) = with_image
          /\ (r.video_path # None) = with_video

\* the keys of a scene result besides its identification, its prompts, its
\* artifact paths and its provider task id
OtherKeys(r) ==
  DOMAIN r \ {"scene_title", "scene_name", "scene_info", "time_slot", "event_name",
              "image_prompt", "sora_prompt", "image_path", "video_path", "task_id"}

\* C12: three scenes, two workers; scene 1's image generation failed once,
\* scene 2 succeeded at once, scene 3's polls answered processing until every
\* timeout. Whatever the order of completion, the returned report holds the
\* three entries, scenes 1 and 2 with image_path and video_path, scene 3 with
\* image_path, with video_path null and with a recorded failure reason.
C12_ThreeSceneReport ==
  (phase = "returned" /\ hist[1].image_fails = 1)
  => /\ TotalScenes(results) = Len(tasks)
     /\ SceneReported(TitlePrologue, TRUE, TRUE)
     /\ SceneReported(TitleBranchA, TRUE, TRUE)
     /\ SceneReported(TitleBranchB, TRUE, FALSE)
     /\ \A r \in ReportScenes :
          r.scene_title = TitleBranchB => OtherKeys(r) # {}

\* task t makes a download_file call in this step and it returns false
ImageDownloadFails(t) ==
  ctl[t].pc = "gsi_download" /\ ctl'[t] # ctl[t] /\ hist'[t].image_dl = "failed"

VideoDownloadFails(t) ==
  ctl[t].pc = "gsv_download" /\ ctl'[t] # ctl[t] /\ hist'[t].video_dl = "failed"

\* after the step the task is about to call download_file on the same URL again
DownloadsSameUrlNext(t) ==
  ctl'[t].pc = ctl[t].pc /\ ctl'[t].url = ctl[t].url

\* C13: after a failed download of an image or of a video (every download in
\* the program is the first one on its URL) the task downloads the same URL
\* again before it asks the provider for a fresh generation.
C13_DownloadRetriedOnSameUrl ==
  [][\A t \in TaskIds :
       (ImageDownloadFails(t) \/ VideoDownloadFails(t)) => DownloadsSameUrlNext(t)]_vars

\* the positions of a task inside generate_scene_image
ImageStage == {"gsi_generate", "gsi_download", "gsi_sleep"}

C16_StatusQueryNeverRaises ==
  query # None => query.answer # "raise"

\* the director event a scene result comes from, as its scene_name spells it:
\* time slot and director event index
ParentOf(scene_result) == << scene_result.scene_name[1], scene_result.scene_name[3] >>

\* C17: every event entry of r_events and sr_events holds the scenes of one
\* director event only: no two scenes of an entry differ in the time slot or
\* in the event index of the director event they were made from.
C17_EntryGroupsOneDirectorEvent ==
  \A e \in {results.r_events[n] : n \in DOMAIN results.r_events}
           \cup {results.sr_events[n] : n \in DOMAIN results.sr_events} :
    \A i, j \in DOMAIN e.scenes : ParentOf(e.scenes[i]) = ParentOf(e.scenes[j])

\* the results dict when the futures of the first n tasks are taken in the
\* order of the input list, each with the outcome its thread ended with
RECURSIVE InInputOrder(_)
InInputOrder(n) ==
  IF n = 0 THEN EmptyResults
  ELSE ResultsAfterFuture(InInputOrder(n - 1), tasks[n], ctl[n])

\* C18: with the tasks and their outcomes fixed, the report does not depend on
\* the order in which the futures complete: once every future is collected,
\* n_events, r_events and sr_events are what collecting in input order gives
\* (the order as_completed yields when the tasks finish in that order).
C18_ReportSameForEveryCompletionOrder ==
  (tasks # <<>> /\ collected = TaskIds) =>
    [results EXCEPT !.summary = None] = InInputOrder(Len(tasks))

\* fields that hold a title or a text; the others hold None or a value
TextFields ==
  {"scene_title", "narrative_title", "branch_title", "scene_title_part1",
   "scene_title_part2", "text", "format", "event_type"}

NonEmptyField(f, v) == IF f \in TextFields THEN v # "" ELSE v # None

\* a stored dict after the merge: every field that changed has the non-empty
\* value one of the new dicts of the same id carries for it
ItemFrame(old, carriers, merged) ==
  /\ DOMAIN merged = DOMAIN old
  /\ \A f \in DOMAIN old :
       merged[f] # old[f] =>
         \E n \in carriers : NonEmptyField(f, n[f]) /\ merged[f] = n[f]

\* a stored list of dicts after the merge: the stored dicts in place, each
\* changed as ItemFrame allows, followed by dicts of the new list
ItemsFrame(old, new, merged, key) ==
  /\ Len(merged) >= Len(old)
  /\ \A i \in DOMAIN old :
       ItemFrame(old[i], {new[j] : j \in {j \in DOMAIN new : new[j][key] = old[i][key]}},
                 merged[i])
  /\ \A i \in (Len(old) + 1)..Len(merged) : \E j \in DOMAIN new : merged[i] = new[j]

\* a stored event after a key hit
EventFrame(old, new, merged) ==
  /\ DOMAIN merged = DOMAIN old
  /\ \A f \in DOMAIN old :
       CASE f = "prologue" -> ItemFrame(old[f], {new[f]}, merged[f])
         [] f = "branches" -> ItemsFrame(old[f], new[f], merged[f], "branch_id")
         [] f = "phases" -> ItemsFrame(old[f], new[f], merged[f], "phase_number")
         [] f = "resolutions" -> ItemsFrame(old[f], new[f], merged[f], "ending_id")
         [] OTHER -> merged[f] # old[f] =>
                       (NonEmptyField(f, new[f]) /\ merged[f] = new[f])

\* the stored event a new event hits (0: key miss)
KeyHit(stored, new_event) ==
  LastIndex({idx \in DOMAIN stored : EventKey(stored[idx]) = EventKey(new_event)})

\* one turn of the merge loop: the events before, the new event, the events after
TurnFrame(before, new_event, after, i) ==
  IF i = 0 THEN after = Append(before, new_event)
  ELSE /\ Len(after) = Len(before)
       /\ \A n \in DOMAIN before : n # i => after[n] = before[n]
       /\ EventFrame(before[i], new_event, after[i])

MergeFrame(stored, new_events) ==
  \A k \in DOMAIN new_events :
    TurnFrame(MergeLoop(stored, stored, SubSeq(new_events, 1, k - 1)),
              new_events[k],
              MergeLoop(stored, stored, SubSeq(new_events, 1, k)),
              KeyHit(stored, new_events[k]))

\* the merge of _save_interactive_json is about to run
Merging ==
  phase = "interactive" /\ TimeSlotsTruthy(time_slots) /\ interactive_file # None

\* C19: on a key hit _merge_event_data changes only fields for which the new
\* event carries a non-empty value and sets them to that value, so no stored
\* non-empty field becomes null or empty and every other stored field stays;
\* on a key miss the new event is appended whole and no stored event changes.
C19_MergeChangesOnlyWhatTheNewEventCarries ==
  Merging =>
    MergeFrame(interactive_file[1], NewEvents(schedule_data, results, events_data))

\* a key hit on a stored event whose prologue has a video while the new event
\* has none for it, and one whose new event brings a branch not stored yet
KeptPrologue(stored, new_events) ==
  \E k \in DOMAIN new_events :
    /\ KeyHit(stored, new_events[k]) # 0
    /\ new_events[k].event_type = "R"
    /\ new_events[k].prologue.video_file = None
    /\ stored[KeyHit(stored, new_events[k])].prologue.video_file # None

C19_Witness ==
  /\ Merging
  /\ KeptPrologue(interactive_file[1], NewEvents(schedule_data, results, events_data))

\* a new event that hits no stored event
KeyMiss(stored, new_events) ==
  \E k \in DOMAIN new_events : KeyHit(stored, new_events[k]) = 0

C19_WitnessKeyMiss ==
  /\ Merging
  /\ KeyMiss(interactive_file[1], NewEvents(schedule_data, results, events_data))

\* the tasks a worker has started are a prefix of the input list
StartedInInputOrder ==
  \A t, u \in TaskIds : (u < t /\ ctl[t].pc # "queued") => ctl[u].pc # "queued"

\* generate has handed its tasks to the pool and none of them waits any more
AllStarted == tasks # <<>> /\ \A t \in TaskIds : ctl[t].pc # "queued"

\* C20 as stated: tasks are started in the order of the input list and every
\* task is eventually started by a worker, whatever max_workers is.
C20_EveryTaskStartedInOrder == []StartedInInputOrder /\ <>AllStarted

\* C20 amended: tasks are started in the order of the input list, and every
\* task is eventually started unless some task stays inside an image retry
\* loop for ever and so never gives its worker back.
C20_StartedInOrderUnlessImageRetriesForever ==
  []StartedInInputOrder /\ (<>[](\E t \in TaskIds : InImageLoop(t)) \/ <>AllStarted)

\* the second task got the only worker after the first one was done with it
C20_Witness ==
  /\ config.max_workers = 1
  /\ Len(tasks) = 2
  /\ ctl[1].pc \in {"returned", "raised"}
  /\ ctl[2].pc # "queued"

\* the video a call made is in the file: an event of its time slot names it
VideoNamed(events, run) ==
  \A i \in DOMAIN run.results.n_events :
    run.results.n_events[i].video_path # None =>
      \E k \in DOMAIN events :
        /\ events[k].event_type = "N"
        /\ events[k].video_file = Basename(run.results.n_events[i].video_path)

\* C21: the load-merge-save sequences of two generate calls on the same
\* interactive_data file exclude each other, so that no call's update is lost:
\* when both calls have saved, the file names the N video each of them made.
C21_NoUpdateOfTheFileIsLost ==
  (runs # None /\ \A r \in DOMAIN runs : runs[r].pc = "done") =>
    \A r \in DOMAIN runs : VideoNamed(interactive_file[1], runs[r])

\* the config file lacks a required section or key, or a model is selected
\* that the generator does not support
Defective(c) ==
  \/ \E i \in DOMAIN c.file : c.file[i] \in {"absent", "lacks_key"}
  \/ c.image_model \notin {None, <<"seedream">>, <<"nano_banana">>}
  \/ c.video_model \notin {None, <<"sora2">>, <<"kling">>}

\* C22: with a config that lacks a required section or key, or with an
\* unsupported image or video model, the constructor raises: there never is a
\* generator, so no scene task is collected or started and no provider is
\* asked anything; it does not become the failure of a task.
C22_DefectiveConfigStopsConstruction ==
  (construction # None /\ Defective(construction)) =>
    /\ construction.outcome \in {"pending", "ValueError"}
    /\ tasks = <<>>
    /\ phase = "idle"
    /\ files = <<>>

\* the constructor has raised on a file that lacks the key of a provider
C22_Witness ==
  /\ construction # None
  /\ construction.outcome = "ValueError"
  /\ construction.file[1] = "lacks_key"
  /\ \A i \in DOMAIN construction.file : i # 1 => construction.file[i] = "complete"
  /\ construction.image_model = None
  /\ construction.video_model = None

\* C23: the reference image handed to submit_video is the image that was
\* downloaded to the scene's image_path, and every submission of the scene
\* gets the same one.
C23_ReferenceIsTheSceneFrame ==
  \A t \in TaskIds :
    hist[t].submits > 0 =>
      /\ ctl[t].image_path # None
      /\ hist[t].references = {hist[t].frame}

\* every submission of a scene gets the same reference image
C23_OneReferencePerScene ==
  \A t \in TaskIds : Cardinality(hist[t].references) <= 1

\* a scene with both prompts has its frame on disk and has submitted twice
C23_TwoSubmissions ==
  \E t \in TaskIds :
    /\ hist[t].submits = 2
    /\ ctl[t].image_path # None

\* C24: with timeout_retry_enabled false, a scene task whose wait for a video
\* job has reached video_timeout_seconds calls submit_video no more, and it
\* ends with video_path null.
C24_NoResubmissionWhenRetryDisabled ==
  ~config.timeout_retry_enabled =>
    \A t \in TaskIds :
      /\ ~hist[t].submit_after_give_up
      /\ (hist[t].gave_up /\ ctl[t].pc = "returned") => ctl[t].video_path = None

\* C25: every video attempt has a timeout window of its own: the clock of the
\* wait starts at 0 when the attempt's job has been submitted, the status is
\* queried only while the elapsed time is below video_timeout_seconds, the
\* job queried is the one of the current attempt, and a job given up is
\* never queried again once another has been submitted.
C25_EachAttemptHasItsOwnWindow ==
  [][\A t \in TaskIds :
       (t \in DOMAIN ctl /\ t \in DOMAIN ctl') =>
         /\ (ctl[t].pc = "gsv_submit" /\ ctl'[t].pc = "gsv_wait") =>
               /\ ctl'[t].elapsed_time = 0
               /\ ctl'[t].task_id = hist'[t].submits
         /\ hist'[t].polled # hist[t].polled =>
               /\ ctl[t].pc = "gsv_wait"
               /\ ~TimedOut(ctl[t].elapsed_time, config.video_timeout_seconds)
               /\ hist'[t].polled = hist[t].submits
               /\ hist'[t].polled > hist[t].polled
         /\ (ctl[t].pc = "gsv_wait"
             /\ TimedOut(ctl[t].elapsed_time, config.video_timeout_seconds)) =>
               /\ ctl'[t].pc # "gsv_wait"
               /\ hist'[t].polled = hist[t].polled]_vars

\* the second job of a scene is being waited for and has been queried, after
\* the first one was queried until its window had passed
C25_Witness ==
  \E t \in TaskIds :
    /\ ctl[t].pc = "gsv_wait"
    /\ ctl[t].task_id = 2
    /\ hist[t].polled = 2
    /\ ctl[t].elapsed_time >= 1
    /\ ctl[t].video_retry = 1
    /\ hist[t].pending_only

\* C26 as stated: the task_id of a scene result is what the most recent
\* submit_video call of the task returned, and it is null only when the task
\* called submit_video not at all.
C26_TaskIdIsWhatTheLastCallReturned ==
  \A t \in TaskIds :
    ctl[t].pc = "returned" =>
      /\ ctl[t].task_id = hist[t].returned_id
      /\ (ctl[t].task_id = 0 => hist[t].submits = 0)

\* C26: the task_id of a scene result is the id of the last job the task got
\* from submit_video: every call that returns an id replaces it, a call that
\* returns None and every other step leave it as it is, and it is null until
\* a call has returned an id.
C26_TaskIdIsTheLastJobSubmitted ==
  [][\A t \in TaskIds :
       (t \in DOMAIN ctl /\ t \in DOMAIN ctl') =>
         IF hist'[t].submits # hist[t].submits /\ hist'[t].returned_id # 0
         THEN ctl'[t].task_id = hist'[t].returned_id
         ELSE ctl'[t].task_id = ctl[t].task_id]_vars

\* a task has returned with the id of its first job after its second
\* submit_video call returned None
C26_Witness ==
  \E t \in TaskIds :
    /\ ctl[t].pc = "returned"
    /\ ctl[t].task_id = 1
    /\ hist[t].submits = 2
    /\ hist[t].returned_id = 0

\* the task is for a time slot the call of generate asked for
InCallSlots(task) == task.time_slot \in time_slots.slots

\* the tasks a call for the whole day collects, those of the asked slots only
FullRunTasks ==
  SelectSeq(CollectTasks(schedule_data, director_data, NoSlots), InCallSlots)

\* C27: in a call of generate restricted to time slots, every scene gets the
\* scene_name (and so the file names) it gets in a call for the whole day
\* over the same schedule and director script.
C27_SceneNameSameInRestrictedRun ==
  (time_slots.given /\ tasks # <<>>) =>
    /\ Len(tasks) = Len(FullRunTasks)
    /\ \A t \in DOMAIN tasks : SceneName(tasks[t]) = SceneName(FullRunTasks[t])

\* the files the task of a scene writes
FilesOfTask(task) == {ImagePath(task), VideoPath(task)}

\* C28: in one call of generate no two scene tasks have the same scene_name,
\* so no two of them write the same image file or the same video file.
C28_SceneNamesDifferInOneRun ==
  \A t, u \in DOMAIN tasks :
    t # u =>
      /\ SceneName(tasks[t]) # SceneName(tasks[u])
      /\ FilesOfTask(tasks[t]) \cap FilesOfTask(tasks[u]) = {}

\* two N events of one name in one time slot are generated in one call
C28_Witness ==
  \E t, u \in DOMAIN tasks :
    /\ t # u
    /\ tasks[t].task_type = "n_event"
    /\ tasks[u].task_type = "n_event"
    /\ tasks[t].scene.event_name = tasks[u].scene.event_name
    /\ tasks[t].scene.time_slot = tasks[u].scene.time_slot
    /\ ctl[t].pc = "returned"
    /\ ctl[u].pc = "returned"

\* C29: in process_all_tasks a task id that is in the list more than once is
\* downloaded at most once: after one worker has completed a task id (it is in
\* _completed_tasks), no worker downloads the video of that id.
C29_CompletedIdNotDownloadedAgain ==
  batch # None =>
    /\ ~batch.late_download
    /\ \A id \in DOMAIN batch.downloads : batch.downloads[id] <= 1

\* C30: in process_all_tasks every task whose result is timeout has had its
\* status queried at least once.
C30_TimeoutOnlyAfterAQuery ==
  batch # None =>
    \A i \in DOMAIN batch.wk :
      batch.wk[i].result = "timeout" => batch.wk[i].queried
====
